---- MODULE Spec2Model ----
(***************************************************************************)
(* AudioAnalysisTools: the sub-band beat detector (UBeatDetection), the    *)
(* analysis pipeline with its background FFT tasks and transform plan      *)
(* (UAudioAnalysisToolsLibrary) and the sound-wave frame range reader.     *)
(*                                                                         *)
(* Numbers.  A C++ float is the record [m, e] of its exact value m * 2^e,  *)
(* m odd or zero, as the 32-bit format holds it; the exponent InfExp marks *)
(* the values that are not finite: m = 1 and m = -1 the infinities, m = 0  *)
(* the NaN.  The sign of a zero is not kept.  Every value the code stores  *)
(* in a float is rounded to the nearest float, ties to even, with overflow *)
(* to the infinities and with the subnormals; line 92 of UpdateFFT is      *)
(* computed in double and rounded to float when stored.                    *)
(*                                                                         *)
(* Threads.  The owner's thread advances one statement at a time, a        *)
(* background task of the pipeline one access at a time: the load of a     *)
(* member pointer or of an array's buffer, the access through it, and each *)
(* argument of a call are steps of their own.                              *)
(***************************************************************************)
EXTENDS Integers, Sequences, FiniteSets, TLC

VARIABLES
    \* ---- UBeatDetection
    created,            \* CreateBeatDetection has returned the object
    HistoryPosition,
    FFTSubbandsSize,
    EnergyHistorySize,
    FFTSubbands,
    FFTAverageEnergy,
    FFTVariance,
    FFTBeatValues,
    EnergyHistory,
    lastCall,           \* the last call made on the detector: [op, arg]
    nUpdates,           \* number of UpdateFFT calls so far
    fault,              \* "none", or how undefined behaviour ended the run
    steadySpectrum,     \* the spectrum fed repeatedly (SpecSteady), else << >>
    \* ---- UAudioAnalysisToolsLibrary
    initialized,        \* Initialize has run (BeatDetectionRef is set)
    destroyed,          \* BeginDestroy has run
    FFTConfigured,
    FFT_Configuration,  \* heap block of the plan, 0 for nullptr
    FFT_InSamples,      \* heap block, 0 for nullptr
    FFT_OutSamples,     \* heap block, 0 for nullptr
    blockData,          \* block -> the elements it holds
    CurrentAudioFrame,  \* the elements, each known by its origin
    WindowFunction,     \* its buffer and its length
    FFTReal,
    FFTImaginary,
    MagnitudeSpectrum,
    heap,               \* block -> "unused" | "live" | "freed"
    nextBlock,          \* blocks handed out so far
    doubleFree,         \* a block that was not live has been freed
    owner,              \* where the owner's thread is inside its current call
    tasks,              \* the AsyncTask lambdas, in submission order
    beatLog,            \* the spectra BeatDetectionRef has received
    pipeFault,          \* "none", or how undefined behaviour ended the run
    \* ---- GetAudioFrameFromSoundWaveByFramesCustom
    PCMNumOfFrames,     \* frames the sound wave holds
    NumChannels,
    AudioFrame,         \* the caller's output array
    waveCall,           \* the last call: [start, end, result]
    \* ---- the calls a probed detector has received
    fed,                \* spectra passed to UpdateFFT since creation (SpecProbe)
    \* ---- UCoreTimeDomainFeatures
    featureCall         \* the last feature computed on AudioFrame: [op, result]

beatVars == <<created, HistoryPosition, FFTSubbandsSize, EnergyHistorySize,
              FFTSubbands, FFTAverageEnergy, FFTVariance, FFTBeatValues,
              EnergyHistory, lastCall, nUpdates, fault, steadySpectrum>>

\* What only the owner's thread writes.
ownerVars == <<initialized, destroyed, FFTConfigured, FFT_Configuration,
               FFT_InSamples, FFT_OutSamples, CurrentAudioFrame, WindowFunction,
               heap, nextBlock, doubleFree, owner>>

\* The owner's thread writes them in steps of their own.
lifeVars == <<initialized, destroyed>>

planVars == <<FFTConfigured, FFT_Configuration, FFT_InSamples, FFT_OutSamples,
              heap, nextBlock, doubleFree>>

arrayVars == <<CurrentAudioFrame, WindowFunction, FFTReal, FFTImaginary,
               MagnitudeSpectrum>>

workVars == <<tasks, beatLog, pipeFault>>

pipeVars == <<ownerVars, blockData, FFTReal, FFTImaginary, MagnitudeSpectrum,
              tasks, beatLog, pipeFault>>

waveVars == <<PCMNumOfFrames, NumChannels, AudioFrame, waveCall>>

probeVars == <<fed>>

featureVars == <<featureCall>>

vars == <<beatVars, pipeVars, waveVars, probeVars, featureVars>>

notBeat == <<pipeVars, waveVars, probeVars, featureVars>>
notPipe == <<beatVars, waveVars, probeVars, featureVars>>
notPipeNorBeat == <<steadySpectrum, waveVars, probeVars, featureVars>>
notWave == <<beatVars, pipeVars, probeVars, featureVars>>

-----------------------------------------------------------------------------
\* Bounds of the model.
MaxSubbands == 2
MaxHistory == 2
MaxUpdates == 2
MaxSteadySubbands == 4
MaxSteadyHistory == 2
MaxSteadyBins == 3
MaxSteadyUpdates == 4
MaxPlans == 2
\* The sizes CreateBeatDetection() takes from its default arguments: positive
\* constants set in the class declaration, here small ones above the lengths
\* of the spectra the pipeline produces.
DefaultFFTSubbandsSize == 2
DefaultEnergyHistorySize == 2
MaxFrames == 2
\* The caller calls UpdateFrameSize itself only while it has submitted at
\* most so many frames.
MaxFramesBeforeResize == 1
MaxBeatFrames == 1
NumBackgroundWorkers == 2
MaxWaveFrames == 3
MaxWaveChannels == 2
MaxProbeSubbands == 2
MaxProbeHistory == 2
MaxProbeUpdates == 2
MaxFeedSubbands == 3
MaxFeedHistory == 2
MaxFeedUpdates == 3
MaxFrameLen == 3
MaxDerivedSubbands == 7
MaxDerivedHistory == 1
MaxDerivedUpdates == 2

-----------------------------------------------------------------------------
\* Integers and arrays.

Abs(x) == IF x < 0 THEN -x ELSE x

Sgn(i) == IF i > 0 THEN 1 ELSE IF i < 0 THEN -1 ELSE 0

\* TArray::SetNum: keeps the first n elements, default-constructs (zero) the rest.
SetNum(arr, n, zero) == [i \in 1..n |-> IF i <= Len(arr) THEN arr[i] ELSE zero]

\* Mutant: the remainder is always 0 (a cursor that never advances).
CModStuck(a, b) == 0

\* C++ remainder a % b for a >= 0, b # 0 (truncating division).
CMod(a, b) == IF b > 0 THEN a % b ELSE a % (-b)

-----------------------------------------------------------------------------
\* The magic numbers of the threshold line, in units of 1e-8.
BeatSlopeE8 == 257140
BeatOffsetE8 == 115142857

\* Natural numbers of any size, for the roundings of float and double
\* arithmetic: little-endian sequences of limbs without a leading zero limb.
\* A limb holds LimbBits bits.
LimbBits == 3 * 4

RECURSIVE SmallPow2(_)
SmallPow2(k) == IF k = 0 THEN 1 ELSE 2 * SmallPow2(k - 1)

BigBase == SmallPow2(LimbBits)

RECURSIVE Big(_)
Big(n) == IF n = 0 THEN << >> ELSE <<n % BigBase>> \o Big(n \div BigBase)

Limb(a, i) == IF i <= Len(a) THEN a[i] ELSE 0

RECURSIVE Trim(_)
Trim(a) == IF a = << >> \/ a[Len(a)] # 0 THEN a
           ELSE Trim(SubSeq(a, 1, Len(a) - 1))

RECURSIVE Carried(_, _, _)
\* The limbs of x from limb i on, with carry (or borrow) c moved upwards.
Carried(x, i, c) ==
    IF i > Len(x) THEN Big(c)
    ELSE <<(x[i] + c) % BigBase>> \o Carried(x, i + 1, (x[i] + c) \div BigBase)

BigAdd(a, b) ==
    LET n == IF Len(a) > Len(b) THEN Len(a) ELSE Len(b)
    IN  Carried([i \in 1..n |-> Limb(a, i) + Limb(b, i)], 1, 0)

\* a - b for a >= b
BigSub(a, b) == Trim(Carried([i \in 1..Len(a) |-> a[i] - Limb(b, i)], 1, 0))

RECURSIVE Conv(_, _, _, _)
Conv(a, b, k, i) ==
    IF i > Len(a) THEN 0
    ELSE (IF k + 1 - i \in 1..Len(b) THEN a[i] * b[k + 1 - i] ELSE 0)
         + Conv(a, b, k, i + 1)

BigMul(a, b) ==
    IF a = << >> \/ b = << >> THEN << >>
    ELSE Carried([k \in 1..(Len(a) + Len(b) - 1) |-> Conv(a, b, k, 1)], 1, 0)

RECURSIVE BigCmpAt(_, _, _)
BigCmpAt(a, b, i) == IF i = 0 THEN 0
                     ELSE IF a[i] # b[i] THEN Sgn(a[i] - b[i])
                     ELSE BigCmpAt(a, b, i - 1)

\* -1, 0, 1 as a < b, a = b, a > b
BigCmp(a, b) == IF Len(a) # Len(b) THEN Sgn(Len(a) - Len(b))
                ELSE BigCmpAt(a, b, Len(a))

BigDouble(a) == BigAdd(a, a)

BigOdd(a) == a # << >> /\ a[1] % 2 = 1

RECURSIVE SmallBits(_)
\* The number of bits of n.
SmallBits(n) == IF n = 0 THEN 0 ELSE 1 + SmallBits(n \div 2)

BitLen(a) == IF a = << >> THEN 0
             ELSE LimbBits * (Len(a) - 1) + SmallBits(a[Len(a)])

RECURSIVE Zeros(_)
Zeros(n) == IF n = 0 THEN << >> ELSE <<0>> \o Zeros(n - 1)

\* a * 2^k
BigShift(a, k) ==
    IF a = << >> THEN << >>
    ELSE Zeros(k \div LimbBits)
         \o Carried([i \in 1..Len(a) |-> a[i] * SmallPow2(k % LimbBits)], 1, 0)

\* N and D for k = BitLen(N) - BitLen(D), shifted to the same bit length.
Aligned(N, D, k) ==
    [N |-> IF k < 0 THEN BigShift(N, -k) ELSE N,
     D |-> IF k > 0 THEN BigShift(D, k) ELSE D,
     e |-> k]

ScaledOf(a) == IF BigCmp(a.N, a.D) < 0
               THEN [N |-> BigDouble(a.N), D |-> a.D, e |-> a.e - 1]
               ELSE a

\* N / D brought into [1, 2) by a power of two: N / D * 2^e is the value.
Scaled(N, D) == ScaledOf(Aligned(N, D, BitLen(N) - BitLen(D)))

RECURSIVE FewBits(_, _, _, _)
\* k more bits of the quotient q (at least 1), remainder r, of a division by D.
FewBits(q, r, D, k) ==
    IF k = 0 \/ q = << >> THEN [q |-> q, r |-> r]
    ELSE LET r2 == BigDouble(r)
         IN  IF BigCmp(r2, D) >= 0
             THEN FewBits(BigAdd(BigDouble(q), <<1>>), BigSub(r2, D), D, k - 1)
             ELSE FewBits(BigDouble(q), r2, D, k - 1)

RECURSIVE QuotientBits(_, _, _)
\* The same for a quotient and remainder c, a limb's worth of bits at a time.
QuotientBits(c, D, k) ==
    IF k <= LimbBits THEN FewBits(c.q, c.r, D, k)
    ELSE QuotientBits(FewBits(c.q, c.r, D, LimbBits), D, k - LimbBits)

\* The quotient q rounded to nearest and ties to even, c the sign of
\* twice the remainder minus the divisor.
RoundUp(q, c, e) ==
    [m |-> IF c > 0 \/ (c = 0 /\ BigOdd(q)) THEN BigAdd(q, <<1>>) ELSE q,
     e |-> e]

RoundQuotient(b, D, e) == RoundUp(b.q, BigCmp(BigDouble(b.r), D), e)

RoundScaled(p, s) ==
    RoundQuotient(QuotientBits([q |-> <<1>>, r |-> BigSub(s.N, s.D)], s.D, p - 1),
                  s.D, s.e - (p - 1))

DropLimbs(a, d) == IF d >= Len(a) THEN << >> ELSE SubSeq(a, d + 1, Len(a))

ShiftBits(a, b) ==
    Trim([i \in 1..Len(a) |->
              (a[i] \div SmallPow2(b))
              + (Limb(a, i + 1) % SmallPow2(b)) * SmallPow2(LimbBits - b)])

\* The whole part of a / 2^k
BigShiftRight(a, k) == ShiftBits(DropLimbs(a, k \div LimbBits), k % LimbBits)

\* a has a bit set below bit k
LowBits(a, k) ==
    \/ \E i \in 1..(k \div LimbBits) : Limb(a, i) # 0
    \/ Limb(a, k \div LimbBits + 1) % SmallPow2(k % LimbBits) # 0

\* Bit j of a, bit 0 the lowest.
BigBit(a, j) == (Limb(a, j \div LimbBits + 1) \div SmallPow2(j % LimbBits)) % 2

\* -1, 0, 1 as the k low bits of a are below, at or above half of 2^k (k >= 1).
HalfCmp(a, k) == IF BigBit(a, k - 1) = 0 THEN -1
                 ELSE IF LowBits(a, k - 1) THEN 1 ELSE 0

\* N rounded to a mantissa of at most p bits, having k bits too many.
RoundBits(N, k) ==
    IF k <= 0 THEN [m |-> N, e |-> 0]
    ELSE RoundUp(BigShiftRight(N, k), HalfCmp(N, k), k)

\* N / D (both positive) rounded to a mantissa of p bits (p >= 1), to nearest
\* and ties to even: the value is m * 2^e.  The exponent range is not limited.
RoundTo(p, N, D) == IF D = <<1>> THEN RoundBits(N, BitLen(N) - p)
                    ELSE RoundScaled(p, Scaled(N, D))

\* Mantissa bits of float and of double.
FloatBits == 3 * 8

DoubleBits == FloatBits + 29

\* 2^InfExp is the first magnitude a float cannot hold, 2^MinExp the smallest
\* magnitude with a full mantissa, 2^MinSubExp the smallest one above zero.
InfExp == 2 * 64

MinExp == 2 - InfExp

MinSubExp == MinExp - (FloatBits - 1)

\* A float is the number m * 2^e with m odd, or m = 0 and e = 0 for zero (the
\* sign of a zero is not kept).  With the exponent InfExp it is not finite:
\* m = 1 and m = -1 are the infinities, m = 0 is NaN.
FZero == [m |-> 0, e |-> 0]

FNaN == [m |-> 0, e |-> InfExp]

FInf(s) == [m |-> s, e |-> InfExp]

FIsNaN(x) == x.e = InfExp /\ x.m = 0

FIsInf(x) == x.e = InfExp /\ x.m # 0

FIsFinite(x) == x.e # InfExp

RECURSIVE BigToInt(_)
BigToInt(a) == IF a = << >> THEN 0 ELSE a[1] + BigBase * BigToInt(Tail(a))

RECURSIVE OddPart(_, _)
\* m * 2^e (m > 0) with an odd m.
OddPart(m, e) == IF m % 2 = 0 THEN OddPart(m \div 2, e + 1)
                 ELSE [m |-> m, e |-> e]

WithSign(s, x) == [m |-> s * x.m, e |-> x.e]

\* The float of sign s and magnitude r.m * 2^(r.e + e), a magnitude float's
\* mantissa holds: infinite from 2^InfExp on.
Packed(s, r, e) ==
    IF BitLen(r.m) + r.e + e > InfExp THEN FInf(s)
    ELSE WithSign(s, OddPart(BigToInt(r.m), r.e + e))

\* The mantissa bits float has for a magnitude in [2^E, 2^(E + 1)): fewer
\* below 2^MinExp, where the floats are MinSubExp apart.
MantissaBits(E) == IF E >= MinExp THEN FloatBits ELSE FloatBits - (MinExp - E)

\* The E with N / D in [2^E, 2^(E + 1)).
Log2Floor(N, D) == IF D = <<1>> THEN BitLen(N) - 1 ELSE Scaled(N, D).e

\* N / D is not a power of two.
NotPow2(N, D) == IF D = <<1>> THEN LowBits(N, BitLen(N) - 1)
                 ELSE BigCmp(Scaled(N, D).N, Scaled(N, D).D) > 0

\* With no mantissa bit left the magnitude is at most the smallest float above
\* zero: above half of it, it rounds to that float, otherwise to zero.
FloatWith(s, N, D, e, p) ==
    IF p >= 1 THEN Packed(s, RoundTo(p, N, D), e)
    ELSE IF p = 0 /\ NotPow2(N, D) THEN [m |-> s, e |-> MinSubExp]
    ELSE FZero

\* s * (N / D) * 2^e rounded to float, for a sign s and naturals N, D > 0.
FloatOf(s, N, D, e) ==
    IF N = << >> THEN FZero
    ELSE FloatWith(s, N, D, e, MantissaBits(Log2Floor(N, D) + e))

\* The conversion of an integer to float.
FInt(i) == FloatOf(Sgn(i), Big(Abs(i)), <<1>>, 0)

FNeg(x) == [m |-> -x.m, e |-> x.e]

\* sx * X - sy * Y for signs sx, sy and magnitudes X, Y: its sign and magnitude.
DifferenceOf(s, c, X, Y) ==
    [s |-> s * c, m |-> IF c >= 0 THEN BigSub(X, Y) ELSE BigSub(Y, X)]

SignedDifference(sx, X, sy, Y) ==
    IF sx = sy THEN DifferenceOf(sx, BigCmp(X, Y), X, Y)
    ELSE [s |-> IF sx # 0 THEN sx ELSE -sy, m |-> BigAdd(X, Y)]

\* The magnitude of the finite float x in units of 2^lo (lo <= x.e).
Magnitude(x, lo) == BigShift(Big(Abs(x.m)), x.e - lo)

MinOf(a, b) == IF a < b THEN a ELSE b

FloatOfSum(d, lo) == FloatOf(d.s, d.m, <<1>>, lo)

FiniteSum(x, y, lo) ==
    FloatOfSum(SignedDifference(Sgn(x.m), Magnitude(x, lo),
                                -Sgn(y.m), Magnitude(y, lo)), lo)

\* x + y in float: inf + (-inf) is NaN, an infinity absorbs a finite value.
FAdd(x, y) == IF FIsNaN(x) \/ FIsNaN(y) THEN FNaN
              ELSE IF FIsInf(x) THEN (IF FIsInf(y) /\ y.m # x.m THEN FNaN ELSE x)
              ELSE IF FIsInf(y) THEN y
              ELSE FiniteSum(x, y, MinOf(x.e, y.e))

FSub(x, y) == FAdd(x, FNeg(y))

\* x * y in float: inf * 0 is NaN.
FMul(x, y) == IF FIsNaN(x) \/ FIsNaN(y) THEN FNaN
              ELSE IF FIsInf(x) \/ FIsInf(y)
                   THEN (IF x.m = 0 \/ y.m = 0 THEN FNaN
                         ELSE FInf(Sgn(x.m) * Sgn(y.m)))
              ELSE FloatOf(Sgn(x.m) * Sgn(y.m),
                           BigMul(Big(Abs(x.m)), Big(Abs(y.m))), <<1>>,
                           x.e + y.e)

\* x / y in float: 0 / 0 and inf / inf are NaN, any other x / 0 is infinite.
\* A zero divisor counts as positive.
FDiv(x, y) == IF FIsNaN(x) \/ FIsNaN(y) THEN FNaN
              ELSE IF FIsInf(x)
                   THEN (IF FIsInf(y) THEN FNaN
                         ELSE FInf(Sgn(x.m) * (IF y.m < 0 THEN -1 ELSE 1)))
              ELSE IF FIsInf(y) THEN FZero
              ELSE IF y.m = 0 THEN (IF x.m = 0 THEN FNaN ELSE FInf(Sgn(x.m)))
              ELSE FloatOf(Sgn(x.m) * Sgn(y.m),
                           Big(Abs(x.m)), Big(Abs(y.m)), x.e - y.e)

\* The magnitude N * 2^e with the k low bits of N cut off, and the next
\* magnitude of that many mantissa bits above it.
CutBelow(N, k) == [m |-> BigShiftRight(N, k), e |-> k]

CutAbove(N, k) == [m |-> BigAdd(BigShiftRight(N, k), <<1>>), e |-> k]

\* The floats next to the magnitude N * 2^e (N > 0) that has k bits more than
\* the mantissa holds: the magnitude itself if it is a float, else the float
\* below it and the float above it.
FloatsAround(N, e, k) ==
    IF k <= 0 THEN {Packed(1, [m |-> N, e |-> 0], e)}
    ELSE IF ~LowBits(N, k) THEN {Packed(1, CutBelow(N, k), e)}
    ELSE {Packed(1, CutBelow(N, k), e), Packed(1, CutAbove(N, k), e)}

\* The same for a magnitude of the mantissa width p: with no mantissa bit
\* left it lies between zero and the smallest float above zero.
FloatsNear(N, e, p) ==
    IF p < 1 THEN {FZero, [m |-> 1, e |-> MinSubExp]}
    ELSE FloatsAround(N, e, BitLen(N) - p)

\* The floats next to the square N * 2^e, N > 0.
SquareNear(N, e) == FloatsNear(N, e, MantissaBits(BitLen(N) - 1 + e))

\* FMath::Pow(x, 2): the powf of the C library, which is not correctly
\* rounded.  The result is a float next to the exact square: the square
\* itself if it is a float, else either of the two floats around it, and
\* infinite from 2^InfExp on.
FPow2(x) == IF FIsNaN(x) THEN {FNaN}
            ELSE IF FIsInf(x) THEN {FInf(1)}
            ELSE IF x.m = 0 THEN {FZero}
            ELSE SquareNear(BigMul(Big(Abs(x.m)), Big(Abs(x.m))), 2 * x.e)

\* 2^b
BitAt(b) == BigShift(<<1>>, b)

RECURSIVE FewRootBits(_, _, _, _)
\* The root q of N found down to bit b + 1, with the next k bits found.
FewRootBits(q, N, b, k) ==
    IF k = 0 \/ b < 0 THEN [q |-> q, b |-> b]
    ELSE IF BigCmp(BigMul(BigAdd(q, BitAt(b)), BigAdd(q, BitAt(b))), N) <= 0
         THEN FewRootBits(BigAdd(q, BitAt(b)), N, b - 1, k - 1)
         ELSE FewRootBits(q, N, b - 1, k - 1)

RECURSIVE RootBits(_, _)
RootBits(c, N) == IF c.b < 0 THEN c.q
                  ELSE RootBits(FewRootBits(c.q, N, c.b, LimbBits), N)

\* The whole part of the square root of N.
BigRoot(N) == RootBits([q |-> << >>, b |-> (BitLen(N) - 1) \div 2], N)

\* Twice the whole part q of the root of N, plus one when the root is not
\* whole: it rounds as the root does.
RootWithSticky(q, N) ==
    BigAdd(BigDouble(q), IF BigCmp(BigMul(q, q), N) < 0 THEN <<1>> ELSE << >>)

\* The root of N * 2^(2 * h), N of more than twice the bits of a mantissa.
RootOf(N, h) == FloatOf(1, RootWithSticky(BigRoot(N), N), <<1>>, h - 1)

\* The root of m * 2^e brought to m * 2^k * 2^(e - k) with e - k even.
RootAt(m, e, k) == RootOf(BigShift(m, k), (e - k) \div 2)

\* FMath::Sqrt: the root rounded to float; NaN below zero.
FSqrt(x) == IF FIsNaN(x) \/ x.m < 0 THEN FNaN
            ELSE IF FIsInf(x) \/ x.m = 0 THEN x
            ELSE RootAt(Big(x.m), x.e, DoubleBits + ((x.e + DoubleBits) % 2))

FiniteCmp(x, y, lo) ==
    Sgn(x.m) * BigCmp(Magnitude(x, lo), Magnitude(y, lo))

\* -1, 0, 1 as x < y, x = y, x > y, for floats other than NaN (an infinity
\* compares as the magnitude 2^InfExp).
FCmp(x, y) == IF Sgn(x.m) # Sgn(y.m) THEN Sgn(Sgn(x.m) - Sgn(y.m))
              ELSE FiniteCmp(x, y, MinOf(x.e, y.e))

\* x > y; NaN compares false with everything.
FGt(x, y) == ~FIsNaN(x) /\ ~FIsNaN(y) /\ FCmp(x, y) > 0

RECURSIVE FSum(_, _, _, _)
\* acc + f[i] + ... + f[n], added in this order, each sum rounded to float.
FSum(acc, f, i, n) == IF i > n THEN acc
                      ELSE FSum(FAdd(acc, f[i]), f, i + 1, n)

RECURSIVE FSums(_, _, _, _)
\* The values acc + t[i] + ... + t[n] may have, added in this order, each sum
\* rounded to float, where term j is any float of the set t[j].
FSums(acc, t, i, n) ==
    IF i > n THEN {acc}
    ELSE UNION {FSums(FAdd(acc, q), t, i + 1, n) : q \in t[i]}

RECURSIVE Choices(_)
\* The sequences whose element j is any element of the set sets[j].
Choices(sets) ==
    IF sets = << >> THEN {<< >>}
    ELSE {<<x>> \o rest : x \in Head(sets), rest \in Choices(Tail(sets))}

E8 == Big(10000 * 10000)

\* The literals 0.0025714 and 1.15142857 as the doubles the compiler makes.
BeatSlopeDouble == RoundTo(DoubleBits, Big(BeatSlopeE8), E8)

BeatOffsetDouble == RoundTo(DoubleBits, Big(BeatOffsetE8), E8)

\* The double d.m * 2^(d.e + e) of sign s stored into a float.
FloatOfDouble(s, d, e) == FloatOf(s, d.m, <<1>>, d.e + e)

\* The sum x (a sign and a magnitude in units of 2^lo), rounded to double and
\* stored into a float.
StoredSum(x, lo) ==
    IF x.s = 0 THEN FZero
    ELSE FloatOfDouble(x.s, RoundTo(DoubleBits, x.m, <<1>>), lo)

\* o - sv * t for doubles o, t of the exponents o.e, t.e >= lo.
OffsetMinus(o, sv, t, lo) ==
    StoredSum(SignedDifference(1, BigShift(o.m, o.e - lo),
                               sv, BigShift(t.m, t.e - lo)), lo)

BeatFloatOf(o, sv, t) == OffsetMinus(o, sv, t, MinOf(t.e, o.e))

\* The double product 0.0025714 * |v| for a finite nonzero float v.
SlopeTimes(v, p) == [m |-> p.m, e |-> p.e + BeatSlopeDouble.e + v.e]

\* (-0.0025714 * v) + 1.15142857 for a float v: the product and the sum are
\* computed in double, the sum is stored into a float.
BeatFloat(v) ==
    IF FIsNaN(v) THEN FNaN
    ELSE IF FIsInf(v) THEN FInf(-v.m)
    ELSE IF v.m = 0 THEN FloatOfDouble(1, BeatOffsetDouble, 0)
    ELSE BeatFloatOf(BeatOffsetDouble, Sgn(v.m),
             SlopeTimes(v, RoundTo(DoubleBits,
                                   BigMul(BeatSlopeDouble.m, Big(Abs(v.m))),
                                   <<1>>)))

\* e > avg * b, the comparison of IsBeat: the product is rounded to float.
ExceedsThreshold(e, avg, b) == FGt(e, FMul(avg, b))

-----------------------------------------------------------------------------
\* UBeatDetection

\* The spectra fed to UpdateFFT in SpecBeat.
BeatSpectra == { <<2, 6>>, <<1, 2, 3>>, <<0, 20, 8, 8>> }

Call(op, arg) == [op |-> op, arg |-> arg]

\* UBeatDetection::UBeatDetection
BeatConstructed ==
    /\ created = FALSE
    /\ HistoryPosition = 0
    /\ FFTSubbandsSize = 0
    /\ EnergyHistorySize = 0
    /\ FFTSubbands = << >>
    /\ FFTAverageEnergy = << >>
    /\ FFTVariance = << >>
    /\ FFTBeatValues = << >>
    /\ EnergyHistory = << >>
    /\ lastCall = Call("new", 0)
    /\ nUpdates = 0
    /\ fault = "none"

\* The rows of EnergyHistory after UpdateEnergyHistorySize(h) on rows `rows`.
HistoryRowsResized(rows, h) ==
    IF h <= 0 THEN rows
    ELSE [s \in 1..Len(rows) |-> SetNum(rows[s], h, FZero)]

\* Mutant: the depth is stored without the `InEnergyHistorySize <= 0` check.
HistorySizeUnchecked(old, h) == h

\* The depth after UpdateEnergyHistorySize(h) on depth `old`.
HistorySizeResized(old, h) == IF h <= 0 THEN old ELSE h

\* UBeatDetection::UpdateEnergyHistorySize, the state change.
DoUpdateEnergyHistorySize(InEnergyHistorySize) ==
    /\ EnergyHistorySize' = HistorySizeResized(EnergyHistorySize, InEnergyHistorySize)
    /\ EnergyHistory' = HistoryRowsResized(EnergyHistory, InEnergyHistorySize)
    /\ UNCHANGED <<HistoryPosition, FFTSubbandsSize, FFTSubbands,
                   FFTAverageEnergy, FFTVariance, FFTBeatValues>>

\* UBeatDetection::UpdateFFTSubbandsSize, the state change, with the depth
\* `depth` that the object holds when it is called.
DoUpdateFFTSubbandsSize(InFFTSubbandsSize, depth) ==
    IF InFFTSubbandsSize <= 0
    THEN /\ EnergyHistorySize' = depth
         /\ UNCHANGED <<HistoryPosition, FFTSubbandsSize, FFTSubbands,
                        FFTAverageEnergy, FFTVariance, FFTBeatValues,
                        EnergyHistory>>
    ELSE /\ FFTSubbandsSize' = InFFTSubbandsSize
         /\ FFTSubbands' = SetNum(FFTSubbands, InFFTSubbandsSize, FZero)
         /\ FFTAverageEnergy' = SetNum(FFTAverageEnergy, InFFTSubbandsSize, FZero)
         /\ FFTVariance' = SetNum(FFTVariance, InFFTSubbandsSize, FZero)
         /\ FFTBeatValues' = SetNum(FFTBeatValues, InFFTSubbandsSize, FZero)
         /\ EnergyHistorySize' = depth
         /\ EnergyHistory' =
                HistoryRowsResized(SetNum(EnergyHistory, InFFTSubbandsSize, << >>),
                                   depth)
         /\ UNCHANGED HistoryPosition

\* UBeatDetection::CreateBeatDetection
CreateBeatDetection(InFFTSubbandsSize, InEnergyHistorySize) ==
    /\ ~created
    /\ fault = "none"
    /\ created' = TRUE
    /\ DoUpdateFFTSubbandsSize(InFFTSubbandsSize, InEnergyHistorySize)
    /\ lastCall' = Call("CreateBeatDetection", InFFTSubbandsSize)
    /\ UNCHANGED <<nUpdates, fault, steadySpectrum>>

\* UBeatDetection::UpdateFFTSubbandsSize
UpdateFFTSubbandsSize(InFFTSubbandsSize) ==
    /\ created
    /\ fault = "none"
    /\ DoUpdateFFTSubbandsSize(InFFTSubbandsSize, EnergyHistorySize)
    /\ lastCall' = Call("UpdateFFTSubbandsSize", InFFTSubbandsSize)
    /\ UNCHANGED <<created, nUpdates, fault, steadySpectrum>>

\* UBeatDetection::UpdateEnergyHistorySize
UpdateEnergyHistorySize(InEnergyHistorySize) ==
    /\ created
    /\ fault = "none"
    /\ DoUpdateEnergyHistorySize(InEnergyHistorySize)
    /\ lastCall' = Call("UpdateEnergyHistorySize", InEnergyHistorySize)
    /\ UNCHANGED <<created, nUpdates, fault, steadySpectrum>>

\* Number of bins per sub-band: MagnitudeSpectrumSize / FFTSubbandsSize.
BinsPerSubband(Spectrum) == Len(Spectrum) \div FFTSubbandsSize

\* static_cast<float>(FFTSubbandsSize) / MagnitudeSpectrumSize: both operands
\* are converted to float, the quotient is rounded to float.
SubbandFactor(Spectrum) == FDiv(FInt(FFTSubbandsSize), FInt(Len(Spectrum)))

\* Bin j (0-based) of sub-band s (0-based).
SubbandBin(Spectrum, s, j) ==
    FInt(Spectrum[s * BinsPerSubband(Spectrum) + j + 1])

\* The bins of sub-band s in the order the loops of lines 77 and 85 read them.
SubbandBins(Spectrum, s) ==
    [j \in 1..BinsPerSubband(Spectrum) |-> SubbandBin(Spectrum, s, j - 1)]

\* FFTSubbands[s] after lines 75-82: the bins are added one by one onto zero
\* and the sum is multiplied by the factor, every result rounded to float.
SubbandEnergy(Spectrum, s) ==
    FMul(FSum(FZero, SubbandBins(Spectrum, s), 1, BinsPerSubband(Spectrum)),
         SubbandFactor(Spectrum))

\* FMath::Pow(bin - FFTSubbands[s], 2) of line 87 for each bin: the values
\* powf may return.
SquaredDeviations(bins, e) == [j \in DOMAIN bins |-> FPow2(FSub(bins[j], e))]

\* FFTVariance[s] after lines 85-89, for each choice of the squares: the old
\* value is accumulated into.
SubbandVariance(Spectrum, s, oldVariance) ==
    {FMul(sum, SubbandFactor(Spectrum)) :
        sum \in FSums(oldVariance,
                      SquaredDeviations(SubbandBins(Spectrum, s),
                                        SubbandEnergy(Spectrum, s)),
                      1, BinsPerSubband(Spectrum))}

\* Mutant: the averaging loop stops one entry short of the history depth.
AverageEnergySkipsLast(row) ==
    FDiv(FSum(FZero, row, 1, EnergyHistorySize - 1), FInt(EnergyHistorySize))

\* FFTAverageEnergy[s] after lines 98-106: the entries of the row are added
\* one by one onto zero, the sum is divided by the depth converted to float.
AverageEnergy(row) ==
    FDiv(FSum(FZero, row, 1, EnergyHistorySize), FInt(EnergyHistorySize))

\* Line 113 writes inside row s.
WriteInBounds(s) == HistoryPosition < Len(EnergyHistory[s])

\* What undefined behaviour in UpdateFFT may do: the checked build stops at the
\* failed range check or the trapping division; the unchecked build writes
\* outside the row and keeps the dividend.
UBOutcomes == {"crashed", "corrupted"}

\* UBeatDetection::UpdateFFT (ProcessMagnitude forwards to it).
UpdateFFT(Spectrum) ==
    LET S == FFTSubbandsSize
        H == EnergyHistorySize
        oob == \E s \in 1..S : ~WriteInBounds(s)
        ub == oob \/ H = 0
        written == [s \in 1..S |->
                      IF WriteInBounds(s)
                      THEN [EnergyHistory[s] EXCEPT ![HistoryPosition + 1] =
                                SubbandEnergy(Spectrum, s - 1)]
                      ELSE EnergyHistory[s]]
    IN
    /\ created
    /\ fault = "none"
    /\ FFTSubbands' = [s \in 1..S |-> SubbandEnergy(Spectrum, s - 1)]
    /\ FFTVariance' \in Choices([s \in 1..S |->
                                    SubbandVariance(Spectrum, s - 1, FFTVariance[s])])
    /\ FFTBeatValues' = [s \in 1..S |-> BeatFloat(FFTVariance'[s])]
    /\ FFTAverageEnergy' = [s \in 1..S |-> AverageEnergy(EnergyHistory[s])]
    /\ IF ~ub
       THEN /\ EnergyHistory' = written
            /\ HistoryPosition' = CMod(HistoryPosition + 1, H)
            /\ fault' = "none"
       ELSE \E outcome \in UBOutcomes :
            /\ fault' = outcome
            /\ IF outcome = "crashed"
               THEN UNCHANGED <<EnergyHistory, HistoryPosition>>
               ELSE /\ EnergyHistory' = written
                    /\ HistoryPosition' = IF H = 0 THEN HistoryPosition + 1
                                          ELSE CMod(HistoryPosition + 1, H)
    /\ nUpdates' = nUpdates + 1
    /\ lastCall' = Call("UpdateFFT", Len(Spectrum))
    /\ UNCHANGED <<created, FFTSubbandsSize, EnergyHistorySize>>

\* UBeatDetection::ProcessMagnitude on an arbitrary spectrum.
ProcessMagnitude ==
    \E m \in BeatSpectra :
        /\ nUpdates < MaxUpdates
        /\ UpdateFFT(m)
        /\ UNCHANGED <<steadySpectrum, notBeat>>

\* UBeatDetection::IsBeat for SubBand >= 0.
IsBeat(SubBand) ==
    IF SubBand >= FFTSubbandsSize THEN FALSE
    ELSE ExceedsThreshold(FFTSubbands[SubBand + 1], FFTAverageEnergy[SubBand + 1],
                          FFTBeatValues[SubBand + 1])

\* A call that returned: what was called, with what, and the value returned.
Answer(op, arg, result) == [op |-> op, arg |-> arg, result |-> result]

\* IsBeat passes the check of line 133 with an index below the arrays.
IsBeatOutOfArray(SubBand) == SubBand < FFTSubbandsSize /\ SubBand < 0

\* UBeatDetection::IsBeat called by the owner.  An index below 0 passes line
\* 133 and line 138 reads outside the three arrays: the checked build stops
\* at the failed range check, the unchecked build compares whatever floats
\* lie there.
CallIsBeat(SubBand) ==
    /\ created
    /\ fault = "none"
    /\ IF IsBeatOutOfArray(SubBand)
       THEN \/ /\ fault' = "crashed"
               /\ lastCall' = Call("IsBeat", SubBand)
            \/ \E b \in BOOLEAN :
                   /\ fault' = "none"
                   /\ lastCall' = Answer("IsBeat", SubBand, b)
       ELSE /\ fault' = "none"
            /\ lastCall' = Answer("IsBeat", SubBand, IsBeat(SubBand))
    /\ UNCHANGED <<created, HistoryPosition, FFTSubbandsSize, EnergyHistorySize,
                   FFTSubbands, FFTAverageEnergy, FFTVariance, FFTBeatValues,
                   EnergyHistory, nUpdates, steadySpectrum>>

RECURSIVE NumOfBeats(_, _)
\* Mutant: the counting loop stops before High.
NumOfBeatsBelowHigh(Index, High) ==
    Cardinality({s \in Index..(High - 1) : IsBeat(s)})

\* NumOfBeats after the loop of lines 186-192 run from Index.
NumOfBeats(Index, High) ==
    IF Index < High + 1
    THEN (IF IsBeat(Index) THEN 1 ELSE 0) + NumOfBeats(Index + 1, High)
    ELSE 0

\* Mutant: a range of a single sub-band (High = Low) is accepted.
IsBeatRangeOfOneBand(Low, High, Threshold) ==
    IF ~(Low >= 0 /\ Low < FFTSubbandsSize) THEN FALSE
    ELSE IF ~(High >= 0 /\ High < FFTSubbandsSize) THEN FALSE
    ELSE IF ~(High >= Low) THEN FALSE
    ELSE NumOfBeats(Low, High) > Threshold

\* UBeatDetection::IsBeatRange
IsBeatRange(Low, High, Threshold) ==
    IF ~(Low >= 0 /\ Low < FFTSubbandsSize) THEN FALSE
    ELSE IF ~(High >= 0 /\ High < FFTSubbandsSize) THEN FALSE
    ELSE IF ~(High > Low) THEN FALSE
    ELSE NumOfBeats(Low, High) > Threshold

\* UBeatDetection::IsBeatRange called by the owner (a const method).
CallIsBeatRange(Low, High, Threshold) ==
    /\ created
    /\ fault = "none"
    /\ lastCall' = Answer("IsBeatRange", <<Low, High, Threshold>>,
                          IsBeatRange(Low, High, Threshold))
    /\ UNCHANGED <<created, HistoryPosition, FFTSubbandsSize, EnergyHistorySize,
                   FFTSubbands, FFTAverageEnergy, FFTVariance, FFTBeatValues,
                   EnergyHistory, nUpdates, fault, steadySpectrum>>

\* C++ integer division a / b, b > 0: the quotient is truncated towards 0.
CDiv(a, b) == IF a >= 0 THEN a \div b ELSE -((-a) \div b)

\* UBeatDetection::IsSnare
IsSnare ==
    LET Low == 1
        High == CDiv(FFTSubbandsSize, 3)
        Threshold == CDiv(High - Low, 3)
    IN  IsBeatRange(Low, High, Threshold)

\* UBeatDetection::IsHiHat
IsHiHat ==
    LET Low == CDiv(FFTSubbandsSize, 2)
        High == FFTSubbandsSize - 1
        Threshold == CDiv(High - Low, 3)
    IN  IsBeatRange(Low, High, Threshold)

\* UBeatDetection::IsSnare called by the owner (a const method).
CallIsSnare ==
    /\ created
    /\ fault = "none"
    /\ lastCall' = Answer("IsSnare", 0, IsSnare)
    /\ UNCHANGED <<created, HistoryPosition, FFTSubbandsSize, EnergyHistorySize,
                   FFTSubbands, FFTAverageEnergy, FFTVariance, FFTBeatValues,
                   EnergyHistory, nUpdates, fault, steadySpectrum>>

\* UBeatDetection::IsHiHat called by the owner (a const method).
CallIsHiHat ==
    /\ created
    /\ fault = "none"
    /\ lastCall' = Answer("IsHiHat", 0, IsHiHat)
    /\ UNCHANGED <<created, HistoryPosition, FFTSubbandsSize, EnergyHistorySize,
                   FFTSubbands, FFTAverageEnergy, FFTVariance, FFTBeatValues,
                   EnergyHistory, nUpdates, fault, steadySpectrum>>

\* Mutant: index 0 is accepted.
GetBandFromZero(Subband) ==
    IF ~(Subband >= 0 /\ Subband < FFTSubbandsSize) THEN FInt(-1)
    ELSE FFTSubbands[Subband + 1]

\* UBeatDetection::GetBand
GetBand(Subband) ==
    IF ~(Subband > 0 /\ Subband < FFTSubbandsSize) THEN FInt(-1)
    ELSE FFTSubbands[Subband + 1]

\* UBeatDetection::GetBand called by the owner (a const method).
CallGetBand(Subband) ==
    /\ created
    /\ fault = "none"
    /\ lastCall' = Answer("GetBand", Subband, GetBand(Subband))
    /\ UNCHANGED <<created, HistoryPosition, FFTSubbandsSize, EnergyHistorySize,
                   FFTSubbands, FFTAverageEnergy, FFTVariance, FFTBeatValues,
                   EnergyHistory, nUpdates, fault, steadySpectrum>>

-----------------------------------------------------------------------------
\* UAudioAnalysisToolsLibrary: the transform plan and the background tasks.
\* The owner's thread advances one statement at a time and each task one
\* access at a time; nothing in the code orders a step of one against the
\* steps of another.

\* Lengths of the frames the caller submits and sizes it asks
\* UpdateFrameSize for.
FrameLens == {2}

\* Frame sizes the caller initializes the object with.
InitialFrameSizes == {1, 2}

Blocks == 1..(3 * MaxPlans)

\* A value is known by its origin, the set of the sources it was computed
\* from: k >= 1 is a sample of the k-th submitted frame, ZeroFilled the zero
\* SetNum stores, Unwritten memory from new[] that nothing wrote yet.  A
\* literal has no source.
ZeroFilled == 0
Unwritten == -1

Filled(len, origin) == [i \in 1..len |-> {origin}]

\* An element of FFTComplexSamples.
Complex(re, im) == [Real |-> re, Imaginary |-> im]

\* new FFTComplexSamples[len]
NewSamples(len) == [i \in 1..len |-> Complex({Unwritten}, {Unwritten})]

\* The sources of all the samples of a block.
Sources(samples) ==
    UNION {samples[j].Real \cup samples[j].Imaginary : j \in 1..Len(samples)}

\* UFFTAnalyzer::PerformFFT: both parts of every output bin depend on both
\* parts of every input sample.
Transformed(samples) ==
    [i \in 1..Len(samples) |-> Complex(Sources(samples), Sources(samples))]

\* A TArray is known by its buffer and its length.  The buffers of the
\* window are counted as they are made; an empty array has none.
NoWindow == [buffer |-> 0, num |-> 0]

\* WindowFunction = UWindowsLibrary::CreateWindow(FrameSize, WindowType): the
\* array that is returned is moved into the member, whose buffer `released`
\* is given back.
CreateWindow(FrameSize, released) == [buffer |-> released + 1, num |-> FrameSize]

\* The owner's thread is in none of its calls.
Idle == [pc |-> "idle", op |-> "none", len |-> 0, beat |-> FALSE]

\* UAudioAnalysisToolsLibrary::UAudioAnalysisToolsLibrary (NewObject zeroes
\* the members the constructor does not set).
PipeConstructed ==
    /\ initialized = FALSE
    /\ destroyed = FALSE
    /\ FFTConfigured = FALSE
    /\ FFT_Configuration = 0
    /\ FFT_InSamples = 0
    /\ FFT_OutSamples = 0
    /\ blockData = [b \in Blocks |-> << >>]
    /\ CurrentAudioFrame = << >>
    /\ WindowFunction = NoWindow
    /\ FFTReal = << >>
    /\ FFTImaginary = << >>
    /\ MagnitudeSpectrum = << >>
    /\ heap = [b \in Blocks |-> "unused"]
    /\ nextBlock = 0
    /\ doubleFree = FALSE
    /\ owner = Idle
    /\ tasks = << >>
    /\ beatLog = << >>
    /\ pipeFault = "none"

\* The blocks the three pointers name (nullptr names none).
PlanBlocks == {FFT_Configuration, FFT_InSamples, FFT_OutSamples} \ {0}

\* Mutant: the block is not released.
ReleasedNever(h, p) == h

\* The heap after FMemory::Free(p) or delete[] p; nullptr releases nothing.
Released(h, p) == [b \in Blocks |-> IF b = p THEN "freed" ELSE h[b]]

\* Releasing p releases a block that is not live.
ReleasesDeadBlock(h, p) == p # 0 /\ h[p] # "live"

\* The owner's thread is idle and the object usable.
OwnerMayCall ==
    /\ initialized
    /\ ~destroyed
    /\ pipeFault = "none"
    /\ owner = Idle

\* The owner's thread is before the statement pc of its call.
OwnerAt(pc) == pipeFault = "none" /\ owner.pc = pc

\* UAudioAnalysisToolsLibrary::UpdateFrameSize entered by the caller `op`,
\* lines 221-223: CurrentAudioFrame is resized.
UpdateFrameSize(FrameSize, op, beat) ==
    /\ nextBlock + 3 <= 3 * MaxPlans
    /\ CurrentAudioFrame' = SetNum(CurrentAudioFrame, FrameSize, {ZeroFilled})
    /\ owner' = [pc |-> "resizeWindow", op |-> op, len |-> FrameSize,
                 beat |-> beat]
    /\ UNCHANGED <<planVars, WindowFunction, FFTReal, FFTImaginary,
                   MagnitudeSpectrum, blockData>>

\* UpdateFrameSize line 225
UpdateFrameSizeWindow ==
    /\ OwnerAt("resizeWindow")
    /\ WindowFunction' = CreateWindow(owner.len, WindowFunction.buffer)
    /\ owner' = [owner EXCEPT !.pc = "resizeReal"]
    /\ UNCHANGED <<lifeVars, planVars, CurrentAudioFrame, FFTReal, FFTImaginary,
                   MagnitudeSpectrum, blockData, workVars>>

\* UpdateFrameSize line 227
UpdateFrameSizeReal ==
    /\ OwnerAt("resizeReal")
    /\ FFTReal' = SetNum(FFTReal, owner.len, {ZeroFilled})
    /\ owner' = [owner EXCEPT !.pc = "resizeImaginary"]
    /\ UNCHANGED <<lifeVars, planVars, CurrentAudioFrame, WindowFunction,
                   FFTImaginary, MagnitudeSpectrum, blockData, workVars>>

\* UpdateFrameSize line 228
UpdateFrameSizeImaginary ==
    /\ OwnerAt("resizeImaginary")
    /\ FFTImaginary' = SetNum(FFTImaginary, owner.len, {ZeroFilled})
    /\ owner' = [owner EXCEPT !.pc = "resizeSpectrum"]
    /\ UNCHANGED <<lifeVars, planVars, CurrentAudioFrame, WindowFunction,
                   FFTReal, MagnitudeSpectrum, blockData, workVars>>

\* UpdateFrameSize line 229, then ConfigureFFT up to its test of line 331:
\* it goes on with FreeFFT or with the allocations.
UpdateFrameSizeSpectrum ==
    /\ OwnerAt("resizeSpectrum")
    /\ MagnitudeSpectrum' =
           SetNum(MagnitudeSpectrum, owner.len \div 2, {ZeroFilled})
    /\ owner' = [owner EXCEPT !.pc = IF FFTConfigured THEN "freePlan"
                                     ELSE "newIn"]
    /\ UNCHANGED <<lifeVars, planVars, CurrentAudioFrame, WindowFunction,
                   FFTReal, FFTImaginary, blockData, workVars>>

\* The contents of the blocks once p is released: what a released block
\* held is gone.
Forgotten(data, p) == [b \in Blocks |-> IF b = p THEN << >> ELSE data[b]]

\* A statement of FreeFFT that releases the block p names.
FreeFFTReleases(pc, p, next) ==
    /\ OwnerAt(pc)
    /\ heap' = Released(heap, p)
    /\ blockData' = Forgotten(blockData, p)
    /\ doubleFree' = (doubleFree \/ ReleasesDeadBlock(heap, p))
    /\ owner' = [owner EXCEPT !.pc = next]
    /\ UNCHANGED <<lifeVars, FFTConfigured, FFT_Configuration, FFT_InSamples,
                   FFT_OutSamples, nextBlock, arrayVars, workVars>>

\* FreeFFT line 348
FreeFFTPlan == FreeFFTReleases("freePlan", FFT_Configuration, "freeIn")

\* FreeFFT line 350
FreeFFTIn == FreeFFTReleases("freeIn", FFT_InSamples, "freeOut")

\* FreeFFT line 351
FreeFFTOut == FreeFFTReleases("freeOut", FFT_OutSamples, "nullPlan")

\* FreeFFT line 353
FreeFFTNullPlan ==
    /\ OwnerAt("nullPlan")
    /\ FFT_Configuration' = 0
    /\ owner' = [owner EXCEPT !.pc = "nullIn"]
    /\ UNCHANGED <<lifeVars, FFTConfigured, FFT_InSamples, FFT_OutSamples, heap,
                   nextBlock, doubleFree, arrayVars, blockData, workVars>>

\* FreeFFT line 354
FreeFFTNullIn ==
    /\ OwnerAt("nullIn")
    /\ FFT_InSamples' = 0
    /\ owner' = [owner EXCEPT !.pc = "nullOut"]
    /\ UNCHANGED <<lifeVars, FFTConfigured, FFT_Configuration, FFT_OutSamples,
                   heap, nextBlock, doubleFree, arrayVars, blockData, workVars>>

\* FreeFFT line 355: ConfigureFFT goes on with the allocations, BeginDestroy
\* returns.
FreeFFTNullOut ==
    /\ OwnerAt("nullOut")
    /\ FFT_OutSamples' = 0
    /\ owner' = IF owner.op = "BeginDestroy" THEN Idle
                ELSE [owner EXCEPT !.pc = "newIn"]
    /\ UNCHANGED <<lifeVars, FFTConfigured, FFT_Configuration, FFT_InSamples,
                   heap, nextBlock, doubleFree, arrayVars, blockData, workVars>>

\* The heap and the blocks after an allocation of len elements.
Allocated(len) ==
    /\ heap' = [heap EXCEPT ![nextBlock + 1] = "live"]
    /\ blockData' = [blockData EXCEPT ![nextBlock + 1] = NewSamples(len)]
    /\ nextBlock' = nextBlock + 1

\* ConfigureFFT lines 336-338: the input buffer is allocated for the length
\* CurrentAudioFrame has.
ConfigureFFTIn ==
    /\ OwnerAt("newIn")
    /\ Allocated(Len(CurrentAudioFrame))
    /\ FFT_InSamples' = nextBlock + 1
    /\ owner' = [owner EXCEPT !.pc = "newOut"]
    /\ UNCHANGED <<lifeVars, FFTConfigured, FFT_Configuration, FFT_OutSamples,
                   doubleFree, arrayVars, workVars>>

\* ConfigureFFT line 339
ConfigureFFTOut ==
    /\ OwnerAt("newOut")
    /\ Allocated(Len(CurrentAudioFrame))
    /\ FFT_OutSamples' = nextBlock + 1
    /\ owner' = [owner EXCEPT !.pc = "newPlan"]
    /\ UNCHANGED <<lifeVars, FFTConfigured, FFT_Configuration, FFT_InSamples,
                   doubleFree, arrayVars, workVars>>

\* ConfigureFFT lines 340-342: the plan is allocated.  UpdateFrameSize and
\* Initialize return, ProcessAudioFrame goes on to line 205.
ConfigureFFTPlan ==
    /\ OwnerAt("newPlan")
    /\ Allocated(Len(CurrentAudioFrame))
    /\ FFT_Configuration' = nextBlock + 1
    /\ FFTConfigured' = TRUE
    /\ owner' = IF owner.op = "ProcessAudioFrame"
                THEN [owner EXCEPT !.pc = "storeFrame"]
                ELSE Idle
    /\ UNCHANGED <<lifeVars, FFT_InSamples, FFT_OutSamples, doubleFree,
                   arrayVars, workVars>>

\* UAudioAnalysisToolsLibrary::Initialize (from CreateAudioAnalysisTools),
\* lines 175-180: the detector is created with the default sizes, then
\* UpdateFrameSize is entered.
Initialize(FrameSize) ==
    /\ ~initialized
    /\ ~destroyed
    /\ pipeFault = "none"
    /\ owner = Idle
    /\ initialized' = TRUE
    /\ CreateBeatDetection(DefaultFFTSubbandsSize, DefaultEnergyHistorySize)
    /\ UpdateFrameSize(FrameSize, "Initialize", FALSE)
    /\ UNCHANGED <<destroyed, workVars>>

\* UAudioAnalysisToolsLibrary::UpdateFrameSize called by the owner
CallUpdateFrameSize(FrameSize) ==
    /\ OwnerMayCall
    /\ UpdateFrameSize(FrameSize, "UpdateFrameSize", FALSE)
    /\ UNCHANGED <<lifeVars, workVars>>

\* An argument of the call of line 375 that is not loaded yet.
NotLoaded == -1

NoArguments == <<NotLoaded, NotLoaded, NotLoaded>>

\* The lambda of the k-th call, submitted with a frame of `size` samples.
\* len is the FrameSize of PerformFFT, idx the index of its loops and of the
\* sub-band loops of UpdateFFT, h the index of its history loop, spectrum the
\* array ProcessMagnitude hands to UpdateFFT, val the value an assignment of
\* PerformFFT has loaded and not yet stored, ptr the pointer or reference a
\* statement has loaded for its access, args the arguments of line 375
\* loaded so far.
Task(frame, size, beat) ==
    [pc |-> "queued", beat |-> beat, frame |-> frame, size |-> size,
     len |-> 0, idx |-> 0, args |-> NoArguments, read |-> {}, val |-> {},
     ptr |-> 0, spectrum |-> << >>, h |-> 0]

\* UAudioAnalysisToolsLibrary::ProcessAudioFrame with the next frame of the
\* caller, of length len: the test of line 200, then line 205 when the length
\* is the current one, else into UpdateFrameSize.
ProcessAudioFrame(len, bProcessToBeatDetection) ==
    /\ OwnerMayCall
    /\ Len(tasks) < MaxFrames
    /\ IF len # Len(CurrentAudioFrame)
       THEN UpdateFrameSize(len, "ProcessAudioFrame", bProcessToBeatDetection)
       ELSE /\ CurrentAudioFrame' = Filled(len, Len(tasks) + 1)
            /\ owner' = [pc |-> "submit", op |-> "ProcessAudioFrame",
                         len |-> len, beat |-> bProcessToBeatDetection]
            /\ UNCHANGED <<planVars, WindowFunction, FFTReal, FFTImaginary,
                           MagnitudeSpectrum, blockData>>
    /\ UNCHANGED <<lifeVars, workVars>>

\* ProcessAudioFrame line 205 after UpdateFrameSize has returned.
ProcessAudioFrameStore ==
    /\ OwnerAt("storeFrame")
    /\ CurrentAudioFrame' = Filled(owner.len, Len(tasks) + 1)
    /\ owner' = [owner EXCEPT !.pc = "submit"]
    /\ UNCHANGED <<lifeVars, planVars, WindowFunction, FFTReal, FFTImaginary,
                   MagnitudeSpectrum, blockData, workVars>>

\* ProcessAudioFrame line 207: the task is submitted.
ProcessAudioFrameSubmit ==
    /\ OwnerAt("submit")
    /\ tasks' = Append(tasks, Task(Len(tasks) + 1, owner.len, owner.beat))
    /\ owner' = Idle
    /\ UNCHANGED <<lifeVars, planVars, arrayVars, blockData, beatLog, pipeFault>>

\* The task is between the construction of its FGCObjectScopeGuard and the
\* end of the lambda.
Running(i) == tasks[i].pc \notin {"queued", "done"}

\* The task is inside PerformFFT, past the pointer check.
Transforming(i) ==
    tasks[i].pc \in {"size", "loadFrame", "indexWindow", "loadWindow",
                     "inForReal", "windowReal", "inForImaginary",
                     "windowImaginary", "call", "fft", "outForReal",
                     "loadOutReal", "storeReal", "outForImaginary",
                     "loadOutImaginary", "storeImaginary", "loadReal",
                     "loadImaginary", "magnitude"}

\* UAudioAnalysisToolsLibrary::BeginDestroy: the garbage collector runs it on
\* the owner's thread once no FGCObjectScopeGuard holds the object; it goes
\* on with FreeFFT if a plan was configured.
BeginDestroy ==
    /\ ~destroyed
    /\ pipeFault = "none"
    /\ owner = Idle
    /\ \A i \in 1..Len(tasks) : ~Running(i)
    /\ destroyed' = TRUE
    /\ owner' = IF FFTConfigured
                THEN [pc |-> "freePlan", op |-> "BeginDestroy", len |-> 0,
                      beat |-> FALSE]
                ELSE Idle
    /\ UNCHANGED <<initialized, planVars, arrayVars, blockData, workVars>>

\* What an access to element idx (from 0) through the pointer p meets.
Access(p, idx) ==
    IF p = 0 THEN "null"
    ELSE IF heap[p] # "live" THEN "dangling"
    ELSE IF idx >= Len(blockData[p]) THEN "overflow"
    ELSE "ok"

\* How a faulty access may end: a null pointer stops every build; a freed
\* block, an index outside a block or outside an array stops the checked
\* build and overwrites or reads foreign memory in the unchecked one.
FaultOutcomes(kind) == IF kind = "null" THEN {"crashed"} ELSE UBOutcomes

\* Undefined behaviour in a task: the run ends.
TaskFaults(outcomes) ==
    /\ \E outcome \in outcomes : pipeFault' = outcome
    /\ UNCHANGED <<ownerVars, blockData, FFTReal, FFTImaginary,
                   MagnitudeSpectrum, tasks, beatLog>>

\* After PerformFFT: the beat detector is fed if the caller asked for it.
AfterPerformFFT(i) == IF tasks[i].beat THEN "beat" ELSE "done"

\* The task is before the statement pc.
TaskAt(i, pc) == pipeFault = "none" /\ tasks[i].pc = pc

\* A background worker takes the oldest queued task: the lambda starts and
\* PerformFFT checks the three pointers (line 360); with a null pointer it
\* logs and returns.  The test loads FFT_Configuration last, and the owner
\* nulls it first (line 353) and sets it last (line 340): whenever it is
\* set the other two are set, so that the three loads pass exactly when all
\* three members are set at the last one, and the test fails at the first
\* member it finds null.  On a destroyed object the members are read from
\* memory the collector may have purged already.
TaskStart(i) ==
    /\ TaskAt(i, "queued")
    /\ \A j \in 1..(i - 1) : tasks[j].pc # "queued"
    /\ Cardinality({j \in 1..Len(tasks) : Running(j)}) < NumBackgroundWorkers
    /\ \/ /\ destroyed
          /\ TaskFaults(UBOutcomes)
       \/ /\ tasks' = [tasks EXCEPT
                         ![i].pc = IF 0 \in {FFT_Configuration, FFT_InSamples,
                                             FFT_OutSamples}
                                   THEN AfterPerformFFT(i) ELSE "size"]
          /\ UNCHANGED <<ownerVars, blockData, FFTReal, FFTImaginary,
                         MagnitudeSpectrum, beatLog, pipeFault>>

\* PerformFFT line 366: FrameSize is read from CurrentAudioFrame.
TaskReadSize(i) ==
    /\ TaskAt(i, "size")
    /\ tasks' = [tasks EXCEPT ![i].len = Len(CurrentAudioFrame),
                              ![i].idx = 0,
                              ![i].pc = IF Len(CurrentAudioFrame) = 0
                                        THEN "call" ELSE "loadFrame"]
    /\ UNCHANGED <<ownerVars, blockData, FFTReal, FFTImaginary,
                   MagnitudeSpectrum, beatLog, pipeFault>>

\* What an access to element idx (from 0) of an array of n elements meets.
ArrayAccess(n, idx) == IF idx >= n THEN "range" ELSE "ok"

\* The task has loaded the value v and goes on to the statement pc.
TaskLoads(i, v, pc) ==
    /\ tasks' = [tasks EXCEPT ![i].val = v, ![i].pc = pc]
    /\ UNCHANGED <<ownerVars, blockData, FFTReal, FFTImaginary,
                   MagnitudeSpectrum, beatLog, pipeFault>>

\* The task has loaded the pointer p, or taken the reference p into an
\* array's buffer, and goes on to the access through it.
TaskPoints(i, p, pc) ==
    /\ tasks' = [tasks EXCEPT ![i].ptr = p, ![i].pc = pc]
    /\ UNCHANGED <<ownerVars, blockData, FFTReal, FFTImaginary,
                   MagnitudeSpectrum, beatLog, pipeFault>>

\* PerformFFT line 370, the first operand: CurrentAudioFrame[Index] is
\* loaded.  Lines 205 and 223 keep the buffer of an array whose length they
\* do not change, so that the element is where operator[] found it.
TaskLoadFrame(i) ==
    /\ TaskAt(i, "loadFrame")
    /\ IF ArrayAccess(Len(CurrentAudioFrame), tasks[i].idx) # "ok"
       THEN TaskFaults(FaultOutcomes("range"))
       ELSE /\ tasks' = [tasks EXCEPT
                           ![i].val = CurrentAudioFrame[tasks[i].idx + 1],
                           ![i].read = @ \cup CurrentAudioFrame[tasks[i].idx + 1],
                           ![i].pc = "indexWindow"]
            /\ UNCHANGED <<ownerVars, blockData, FFTReal, FFTImaginary,
                           MagnitudeSpectrum, beatLog, pipeFault>>

\* PerformFFT line 370, the second operand: WindowFunction[Index] checks the
\* index and gives a reference into the buffer the window has now.
TaskIndexWindow(i) ==
    /\ TaskAt(i, "indexWindow")
    /\ IF ArrayAccess(WindowFunction.num, tasks[i].idx) # "ok"
       THEN TaskFaults(FaultOutcomes("range"))
       ELSE TaskPoints(i, WindowFunction.buffer, "loadWindow")

\* PerformFFT line 370, the second operand: the coefficient is loaded through
\* the reference and multiplied with the sample.  A buffer line 225 has
\* released since is no longer the window's.  The coefficients belong to no
\* frame: the product has the origin of the sample.
TaskLoadWindow(i) ==
    /\ TaskAt(i, "loadWindow")
    /\ IF tasks[i].ptr # WindowFunction.buffer
       THEN TaskFaults(FaultOutcomes("dangling"))
       ELSE TaskPoints(i, 0, "inForReal")

\* PerformFFT line 370, the left side: the member FFT_InSamples is loaded.
TaskInSamplesForReal(i) ==
    /\ TaskAt(i, "inForReal")
    /\ TaskPoints(i, FFT_InSamples, "windowReal")

\* PerformFFT line 370, the assignment: the product is stored into the real
\* part of element Index of the block the loaded pointer names.
TaskWindowReal(i) ==
    /\ TaskAt(i, "windowReal")
    /\ IF Access(tasks[i].ptr, tasks[i].idx) # "ok"
       THEN TaskFaults(FaultOutcomes(Access(tasks[i].ptr, tasks[i].idx)))
       ELSE /\ blockData' =
                   [blockData EXCEPT ![tasks[i].ptr][tasks[i].idx + 1].Real =
                                         tasks[i].val]
            /\ tasks' = [tasks EXCEPT ![i].val = {},
                                      ![i].ptr = 0,
                                      ![i].pc = "inForImaginary"]
            /\ UNCHANGED <<ownerVars, FFTReal, FFTImaginary, MagnitudeSpectrum,
                           beatLog, pipeFault>>

\* PerformFFT line 371: the member FFT_InSamples is loaded.
TaskInSamplesForImaginary(i) ==
    /\ TaskAt(i, "inForImaginary")
    /\ TaskPoints(i, FFT_InSamples, "windowImaginary")

\* PerformFFT line 371 and the loop's step: the imaginary part of the element
\* of the block the loaded pointer names is set to the literal 0.0.
TaskWindowImaginary(i) ==
    /\ TaskAt(i, "windowImaginary")
    /\ IF Access(tasks[i].ptr, tasks[i].idx) # "ok"
       THEN TaskFaults(FaultOutcomes(Access(tasks[i].ptr, tasks[i].idx)))
       ELSE /\ blockData' =
                   [blockData EXCEPT
                        ![tasks[i].ptr][tasks[i].idx + 1].Imaginary = {}]
            /\ tasks' = [tasks EXCEPT
                           ![i].ptr = 0,
                           ![i].idx = @ + 1,
                           ![i].pc = IF tasks[i].idx + 1 = tasks[i].len
                                     THEN "call" ELSE "loadFrame"]
            /\ UNCHANGED <<ownerVars, FFTReal, FFTImaginary, MagnitudeSpectrum,
                           beatLog, pipeFault>>

\* PerformFFT line 375, one argument of the call: the k-th of the three
\* members is loaded.  The language leaves the order of the three loads to
\* the compiler; the call is made once all three are loaded.
TaskLoadArgument(i, k, p) ==
    /\ TaskAt(i, "call")
    /\ tasks[i].args[k] = NotLoaded
    /\ tasks' = [tasks EXCEPT
                   ![i].args[k] = p,
                   ![i].pc = IF \A j \in 1..3 : j = k \/ tasks[i].args[j] # NotLoaded
                             THEN "fft" ELSE "call"]
    /\ UNCHANGED <<ownerVars, blockData, FFTReal, FFTImaginary,
                   MagnitudeSpectrum, beatLog, pipeFault>>

\* PerformFFT line 375, the argument FFT_Configuration.
TaskCallConfiguration(i) == TaskLoadArgument(i, 1, FFT_Configuration)

\* PerformFFT line 375, the argument FFT_InSamples.
TaskCallInSamples(i) == TaskLoadArgument(i, 2, FFT_InSamples)

\* PerformFFT line 375, the argument FFT_OutSamples.
TaskCallOutSamples(i) == TaskLoadArgument(i, 3, FFT_OutSamples)

\* What the transform meets in the blocks it was passed.
TransformAccess(args) ==
    IF \E k \in 1..3 : args[k] = 0 THEN "null"
    ELSE IF \E k \in 1..3 : heap[args[k]] # "live" THEN "dangling"
    ELSE IF \E k \in 2..3 : Len(blockData[args[k]]) # Len(blockData[args[1]])
         THEN "overflow"
    ELSE "ok"

\* PerformFFT line 375, the transform from the input block to the output
\* block it was passed.
TaskTransform(i) ==
    /\ TaskAt(i, "fft")
    /\ IF TransformAccess(tasks[i].args) # "ok"
       THEN TaskFaults(FaultOutcomes(TransformAccess(tasks[i].args)))
       ELSE /\ blockData' =
                   [blockData EXCEPT ![tasks[i].args[3]] =
                                         Transformed(blockData[tasks[i].args[2]])]
            /\ tasks' = [tasks EXCEPT
                           ![i].args = NoArguments,
                           ![i].idx = 0,
                           ![i].pc = IF tasks[i].len = 0 THEN AfterPerformFFT(i)
                                     ELSE "outForReal"]
            /\ UNCHANGED <<ownerVars, FFTReal, FFTImaginary, MagnitudeSpectrum,
                           beatLog, pipeFault>>

\* PerformFFT line 380, the right side: the member FFT_OutSamples is loaded.
TaskOutSamplesForReal(i) ==
    /\ TaskAt(i, "outForReal")
    /\ TaskPoints(i, FFT_OutSamples, "loadOutReal")

\* PerformFFT line 380, the right side: the real part of element Index of
\* the block the loaded pointer names is loaded.
TaskLoadOutReal(i) ==
    /\ TaskAt(i, "loadOutReal")
    /\ IF Access(tasks[i].ptr, tasks[i].idx) # "ok"
       THEN TaskFaults(FaultOutcomes(Access(tasks[i].ptr, tasks[i].idx)))
       ELSE /\ tasks' = [tasks EXCEPT
                           ![i].val = blockData[tasks[i].ptr][tasks[i].idx + 1].Real,
                           ![i].ptr = 0,
                           ![i].pc = "storeReal"]
            /\ UNCHANGED <<ownerVars, blockData, FFTReal, FFTImaginary,
                           MagnitudeSpectrum, beatLog, pipeFault>>

\* PerformFFT line 380, the assignment: the value is stored to FFTReal.
TaskStoreReal(i) ==
    /\ TaskAt(i, "storeReal")
    /\ IF ArrayAccess(Len(FFTReal), tasks[i].idx) # "ok"
       THEN TaskFaults(FaultOutcomes("range"))
       ELSE /\ FFTReal' = [FFTReal EXCEPT ![tasks[i].idx + 1] = tasks[i].val]
            /\ tasks' = [tasks EXCEPT ![i].val = {},
                                      ![i].pc = "outForImaginary"]
            /\ UNCHANGED <<ownerVars, blockData, FFTImaginary,
                           MagnitudeSpectrum, beatLog, pipeFault>>

\* PerformFFT line 381, the right side: the member FFT_OutSamples is loaded.
TaskOutSamplesForImaginary(i) ==
    /\ TaskAt(i, "outForImaginary")
    /\ TaskPoints(i, FFT_OutSamples, "loadOutImaginary")

\* PerformFFT line 381, the right side: the imaginary part of the element of
\* the block the loaded pointer names is loaded.
TaskLoadOutImaginary(i) ==
    /\ TaskAt(i, "loadOutImaginary")
    /\ IF Access(tasks[i].ptr, tasks[i].idx) # "ok"
       THEN TaskFaults(FaultOutcomes(Access(tasks[i].ptr, tasks[i].idx)))
       ELSE /\ tasks' = [tasks EXCEPT
                           ![i].val =
                               blockData[tasks[i].ptr][tasks[i].idx + 1].Imaginary,
                           ![i].ptr = 0,
                           ![i].pc = "storeImaginary"]
            /\ UNCHANGED <<ownerVars, blockData, FFTReal, FFTImaginary,
                           MagnitudeSpectrum, beatLog, pipeFault>>

\* PerformFFT line 381, the assignment, and the loop's step: the value is
\* stored to FFTImaginary.
TaskStoreImaginary(i) ==
    /\ TaskAt(i, "storeImaginary")
    /\ IF ArrayAccess(Len(FFTImaginary), tasks[i].idx) # "ok"
       THEN TaskFaults(FaultOutcomes("range"))
       ELSE /\ FFTImaginary' =
                   [FFTImaginary EXCEPT ![tasks[i].idx + 1] = tasks[i].val]
            /\ tasks' = [tasks EXCEPT
                           ![i].val = {},
                           ![i].idx = IF @ + 1 = tasks[i].len THEN 0 ELSE @ + 1,
                           ![i].pc = IF tasks[i].idx + 1 < tasks[i].len
                                     THEN "outForReal"
                                     ELSE IF tasks[i].len \div 2 = 0
                                          THEN AfterPerformFFT(i)
                                     ELSE "loadReal"]
            /\ UNCHANGED <<ownerVars, blockData, FFTReal, MagnitudeSpectrum,
                           beatLog, pipeFault>>

\* PerformFFT line 387, the first operand: FFTReal[Index] is loaded.
TaskLoadReal(i) ==
    /\ TaskAt(i, "loadReal")
    /\ IF ArrayAccess(Len(FFTReal), tasks[i].idx) # "ok"
       THEN TaskFaults(FaultOutcomes("range"))
       ELSE TaskLoads(i, FFTReal[tasks[i].idx + 1], "loadImaginary")

\* PerformFFT line 387, the second operand: FFTImaginary[Index] is loaded,
\* the magnitude is computed from both.
TaskLoadImaginary(i) ==
    /\ TaskAt(i, "loadImaginary")
    /\ IF ArrayAccess(Len(FFTImaginary), tasks[i].idx) # "ok"
       THEN TaskFaults(FaultOutcomes("range"))
       ELSE TaskLoads(i, tasks[i].val \cup FFTImaginary[tasks[i].idx + 1],
                      "magnitude")

\* PerformFFT line 387, the assignment, and the step of the loop of lines
\* 385-388: the magnitude is stored to MagnitudeSpectrum.
TaskMagnitude(i) ==
    /\ TaskAt(i, "magnitude")
    /\ IF ArrayAccess(Len(MagnitudeSpectrum), tasks[i].idx) # "ok"
       THEN TaskFaults(FaultOutcomes("range"))
       ELSE /\ MagnitudeSpectrum' =
                   [MagnitudeSpectrum EXCEPT ![tasks[i].idx + 1] = tasks[i].val]
            /\ tasks' = [tasks EXCEPT
                           ![i].val = {},
                           ![i].idx = @ + 1,
                           ![i].pc = IF tasks[i].idx + 1 = tasks[i].len \div 2
                                     THEN AfterPerformFFT(i) ELSE "loadReal"]
            /\ UNCHANGED <<ownerVars, blockData, FFTReal, FFTImaginary,
                           beatLog, pipeFault>>

\* The task goes on to the statement pc of UpdateFFT, its sub-band index
\* being idx.
TaskGoes(i, pc, idx) == tasks' = [tasks EXCEPT ![i].pc = pc, ![i].idx = idx]

\* What the steps of a task inside UpdateFFT leave alone.
OutsideDetector ==
    UNCHANGED <<created, FFTSubbandsSize, EnergyHistorySize, lastCall, fault,
                steadySpectrum, ownerVars, blockData, FFTReal, FFTImaginary,
                MagnitudeSpectrum, pipeFault>>

\* Lambda line 214, ProcessMagnitude line 122 and UpdateFFT line 70:
\* MagnitudeSpectrum is copied into the array UpdateFFT works on.  The tasks
\* hold no lock on the detector: UpdateFFT advances one statement at a time.
\* One frame at most is submitted for the detector (MaxBeatFrames) and the
\* owner makes no call on the detector meanwhile, so that the load and the
\* store of one statement meet no other writer between them.  The spectrum of a frame is shorter than
\* the detector's sub-band count, so that the loops of lines 77-80 and 85-88
\* have no pass.
TaskProcessMagnitude(i) ==
    /\ TaskAt(i, "beat")
    /\ Len(MagnitudeSpectrum) < FFTSubbandsSize
    /\ beatLog' = Append(beatLog, MagnitudeSpectrum)
    /\ tasks' = [tasks EXCEPT ![i].spectrum = MagnitudeSpectrum,
                              ![i].idx = 0,
                              ![i].pc = "clearSubband"]
    /\ OutsideDetector
    /\ UNCHANGED <<HistoryPosition, FFTSubbands, FFTAverageEnergy, FFTVariance,
                   FFTBeatValues, EnergyHistory, nUpdates>>

\* UpdateFFT line 75
TaskClearSubband(i) ==
    /\ TaskAt(i, "clearSubband")
    /\ FFTSubbands' = [FFTSubbands EXCEPT ![tasks[i].idx + 1] = FZero]
    /\ TaskGoes(i, "scaleSubband", tasks[i].idx)
    /\ OutsideDetector
    /\ UNCHANGED <<HistoryPosition, FFTAverageEnergy, FFTVariance,
                   FFTBeatValues, EnergyHistory, nUpdates, beatLog>>

\* UpdateFFT line 82
TaskScaleSubband(i) ==
    /\ TaskAt(i, "scaleSubband")
    /\ FFTSubbands' = [FFTSubbands EXCEPT ![tasks[i].idx + 1] =
                           FMul(@, SubbandFactor(tasks[i].spectrum))]
    /\ TaskGoes(i, "scaleVariance", tasks[i].idx)
    /\ OutsideDetector
    /\ UNCHANGED <<HistoryPosition, FFTAverageEnergy, FFTVariance,
                   FFTBeatValues, EnergyHistory, nUpdates, beatLog>>

\* UpdateFFT line 89
TaskScaleVariance(i) ==
    /\ TaskAt(i, "scaleVariance")
    /\ FFTVariance' = [FFTVariance EXCEPT ![tasks[i].idx + 1] =
                           FMul(@, SubbandFactor(tasks[i].spectrum))]
    /\ TaskGoes(i, "beatValue", tasks[i].idx)
    /\ OutsideDetector
    /\ UNCHANGED <<HistoryPosition, FFTSubbands, FFTAverageEnergy,
                   FFTBeatValues, EnergyHistory, nUpdates, beatLog>>

\* UpdateFFT line 92 and the step of the loop of line 73; after its last pass
\* the loop of line 96 starts.
TaskBeatValue(i) ==
    /\ TaskAt(i, "beatValue")
    /\ FFTBeatValues' = [FFTBeatValues EXCEPT ![tasks[i].idx + 1] =
                             BeatFloat(FFTVariance[tasks[i].idx + 1])]
    /\ IF tasks[i].idx + 1 < FFTSubbandsSize
       THEN TaskGoes(i, "clearSubband", tasks[i].idx + 1)
       ELSE TaskGoes(i, "clearAverage", 0)
    /\ OutsideDetector
    /\ UNCHANGED <<HistoryPosition, FFTSubbands, FFTAverageEnergy, FFTVariance,
                   EnergyHistory, nUpdates, beatLog>>

\* UpdateFFT line 98, then the loop of line 100 starts.
TaskClearAverage(i) ==
    /\ TaskAt(i, "clearAverage")
    /\ FFTAverageEnergy' = [FFTAverageEnergy EXCEPT ![tasks[i].idx + 1] = FZero]
    /\ tasks' = [tasks EXCEPT ![i].h = 0,
                              ![i].pc = IF EnergyHistorySize > 0
                                        THEN "sumHistory" ELSE "divideAverage"]
    /\ OutsideDetector
    /\ UNCHANGED <<HistoryPosition, FFTSubbands, FFTVariance, FFTBeatValues,
                   EnergyHistory, nUpdates, beatLog>>

\* UpdateFFT line 102, one pass of the loop.
TaskSumHistory(i) ==
    /\ TaskAt(i, "sumHistory")
    /\ FFTAverageEnergy' =
           [FFTAverageEnergy EXCEPT ![tasks[i].idx + 1] =
                FAdd(@, EnergyHistory[tasks[i].idx + 1][tasks[i].h + 1])]
    /\ tasks' = [tasks EXCEPT ![i].h = @ + 1,
                              ![i].pc = IF tasks[i].h + 1 < EnergyHistorySize
                                        THEN "sumHistory" ELSE "divideAverage"]
    /\ OutsideDetector
    /\ UNCHANGED <<HistoryPosition, FFTSubbands, FFTVariance, FFTBeatValues,
                   EnergyHistory, nUpdates, beatLog>>

\* UpdateFFT line 106 and the step of the loop of line 96; after its last
\* pass the loop of line 110 starts.
TaskDivideAverage(i) ==
    /\ TaskAt(i, "divideAverage")
    /\ FFTAverageEnergy' = [FFTAverageEnergy EXCEPT ![tasks[i].idx + 1] =
                                FDiv(@, FInt(EnergyHistorySize))]
    /\ IF tasks[i].idx + 1 < FFTSubbandsSize
       THEN TaskGoes(i, "clearAverage", tasks[i].idx + 1)
       ELSE TaskGoes(i, "writeHistory", 0)
    /\ OutsideDetector
    /\ UNCHANGED <<HistoryPosition, FFTSubbands, FFTVariance, FFTBeatValues,
                   EnergyHistory, nUpdates, beatLog>>

\* UpdateFFT line 113, one pass of the loop of line 110: the energy is
\* written at the index HistoryPosition holds now.
TaskWriteHistory(i) ==
    /\ TaskAt(i, "writeHistory")
    /\ WriteInBounds(tasks[i].idx + 1)
    /\ EnergyHistory' =
           [EnergyHistory EXCEPT ![tasks[i].idx + 1][HistoryPosition + 1] =
                FFTSubbands[tasks[i].idx + 1]]
    /\ IF tasks[i].idx + 1 < FFTSubbandsSize
       THEN TaskGoes(i, "writeHistory", tasks[i].idx + 1)
       ELSE TaskGoes(i, "advance", 0)
    /\ OutsideDetector
    /\ UNCHANGED <<HistoryPosition, FFTSubbands, FFTAverageEnergy, FFTVariance,
                   FFTBeatValues, nUpdates, beatLog>>

\* UpdateFFT line 117: the cursor advances and the lambda ends.
TaskAdvanceHistory(i) ==
    /\ TaskAt(i, "advance")
    /\ HistoryPosition' = CMod(HistoryPosition + 1, EnergyHistorySize)
    /\ nUpdates' = nUpdates + 1
    /\ tasks' = [tasks EXCEPT ![i].pc = "done"]
    /\ UNCHANGED <<created, FFTSubbandsSize, EnergyHistorySize, fault,
                   steadySpectrum, ownerVars, blockData, FFTReal, FFTImaginary,
                   MagnitudeSpectrum, pipeFault>>
    /\ lastCall' = Call("UpdateFFT", Len(tasks[i].spectrum))
    /\ UNCHANGED <<FFTSubbands, FFTAverageEnergy, FFTVariance, FFTBeatValues,
                   EnergyHistory, beatLog>>

-----------------------------------------------------------------------------
\* UAudioAnalysisToolsLibrary::GetAudioFrameFromSoundWaveByFramesCustom

WaveCall(start, end, result) == [start |-> start, end |-> end, result |-> result]

\* No sound wave is being read.
WaveIdle ==
    /\ PCMNumOfFrames = 0
    /\ NumChannels = 1
    /\ AudioFrame = << >>
    /\ waveCall = WaveCall(0, 0, "none")

\* No spectrum has been recorded and no time-domain feature computed.
NotProbed == fed = << >> /\ featureCall = [op |-> "none"]

\* PCMData of the sound wave: interleaved samples, each sample its own index.
PCMData == [i \in 1..(PCMNumOfFrames * NumChannels) |-> i]

\* The float at data + (i - 1); 0 stands for memory outside the buffer.
PCMSample(i) == IF i \in 1..Len(PCMData) THEN PCMData[i] ELSE 0

\* Mutant: the end frame is compared with the number of samples.
EndBeyondSamples(EndFrame) == EndFrame > Len(PCMData)

\* Line 69: static_cast<uint32>(EndFrame) > PCMNumOfFrames, EndFrame > 0.
EndBeyondFrames(EndFrame) == EndFrame > PCMNumOfFrames

\* Line 78: RetrievedPCMDataSize
RetrievedPCMDataSize(StartFrame, EndFrame) == EndFrame - StartFrame

\* Line 80: GetData() + StartFrame * NumChannels is nullptr.
RetrievedPCMDataIsNull(StartFrame) ==
    Len(PCMData) = 0 /\ StartFrame * NumChannels = 0

\* The value returned, lines 55-100.
FramesCustomResult(StartFrame, EndFrame) ==
    IF ~(StartFrame >= 0 /\ StartFrame < EndFrame) THEN FALSE
    ELSE IF ~(EndFrame > 0 /\ EndFrame > StartFrame) THEN FALSE
    ELSE IF EndBeyondFrames(EndFrame) THEN FALSE
    ELSE IF RetrievedPCMDataIsNull(StartFrame) THEN FALSE
    ELSE IF RetrievedPCMDataSize(StartFrame, EndFrame) <= 0 THEN FALSE
    ELSE IF RetrievedPCMDataSize(StartFrame, EndFrame) > Len(PCMData) THEN FALSE
    ELSE TRUE

\* Line 98: TArray<float>(RetrievedPCMData, RetrievedPCMDataSize)
RetrievedSlice(StartFrame, EndFrame) ==
    [i \in 1..RetrievedPCMDataSize(StartFrame, EndFrame) |->
        PCMSample(StartFrame * NumChannels + i)]

GetAudioFrameFromSoundWaveByFramesCustom(StartFrame, EndFrame) ==
    /\ AudioFrame' = IF FramesCustomResult(StartFrame, EndFrame)
                     THEN RetrievedSlice(StartFrame, EndFrame)
                     ELSE AudioFrame
    /\ waveCall' = WaveCall(StartFrame, EndFrame,
                            IF FramesCustomResult(StartFrame, EndFrame)
                            THEN "true" ELSE "false")
    /\ UNCHANGED <<PCMNumOfFrames, NumChannels>>

\* A sound wave of any size, and the caller's array empty or holding a sample.
InitWave ==
    /\ BeatConstructed
    /\ steadySpectrum = << >>
    /\ PipeConstructed
    /\ PCMNumOfFrames \in 0..MaxWaveFrames
    /\ NumChannels \in 1..MaxWaveChannels
    /\ AudioFrame \in {<< >>, <<0>>}
    /\ waveCall = WaveCall(0, 0, "none")
    /\ NotProbed

GetFrames ==
    \E s \in -1..(MaxWaveFrames + 1), e \in -1..(MaxWaveFrames + 1) :
        GetAudioFrameFromSoundWaveByFramesCustom(s, e) /\ UNCHANGED notWave

NextWave == GetFrames

SpecWave == InitWave /\ [][NextWave]_vars

-----------------------------------------------------------------------------
\* The detector under arbitrary calls.

InitBeat ==
    BeatConstructed /\ steadySpectrum = << >> /\ PipeConstructed /\ WaveIdle
    /\ NotProbed

Create ==
    \E n \in -1..MaxSubbands, h \in -1..MaxHistory :
        CreateBeatDetection(n, h) /\ UNCHANGED notBeat

ResizeSubbands ==
    \E n \in -1..MaxSubbands : UpdateFFTSubbandsSize(n) /\ UNCHANGED notBeat

ResizeHistory ==
    \E h \in -1..MaxHistory : UpdateEnergyHistorySize(h) /\ UNCHANGED notBeat

NextBeat ==
    \/ Create
    \/ ResizeSubbands
    \/ ResizeHistory
    \/ ProcessMagnitude

SpecBeat == InitBeat /\ [][NextBeat]_vars

-----------------------------------------------------------------------------
\* Claims on the detector under arbitrary calls (SpecBeat).

ResizeOps == {"UpdateFFTSubbandsSize", "UpdateEnergyHistorySize"}

detector == <<HistoryPosition, FFTSubbandsSize, EnergyHistorySize, FFTSubbands,
              FFTAverageEnergy, FFTVariance, FFTBeatValues, EnergyHistory>>

\* C1: in every reachable state of a detector with a positive history depth
\* the cursor satisfies 0 <= HistoryPosition < EnergyHistorySize and every
\* history row has exactly EnergyHistorySize entries, so that the write
\* history[s][HistoryPosition] of UpdateFFT is in bounds.  (The depth is taken
\* positive here so that the failure is the cursor's own, not that of C3.)
C1_CursorInBounds ==
    (created /\ fault = "none" /\ EnergyHistorySize > 0) =>
        /\ 0 <= HistoryPosition
        /\ HistoryPosition < EnergyHistorySize
        /\ \A s \in 1..Len(EnergyHistory) :
               Len(EnergyHistory[s]) = EnergyHistorySize

\* C2: right after a successful resize of either dimension every entry of
\* every sub-band's energy history is zero and HistoryPosition is 0.
C2_ResizeClearsHistory ==
    (lastCall.op \in ResizeOps /\ lastCall.arg > 0) =>
        /\ HistoryPosition = 0
        /\ \A s \in 1..Len(EnergyHistory) :
               \A i \in 1..Len(EnergyHistory[s]) : EnergyHistory[s][i] = FZero

\* C3: a detector obtained from CreateBeatDetection with any integer
\* arguments, after any resize calls, has FFTSubbandsSize > 0 and
\* EnergyHistorySize > 0.
C3_SizesPositive ==
    created => (FFTSubbandsSize > 0 /\ EnergyHistorySize > 0)

\* C4: UpdateFFTSubbandsSize(n) with n <= 0 and UpdateEnergyHistorySize(h)
\* with h <= 0 leave the whole detector state unchanged: both sizes, the
\* cursor, the sub-band, variance, threshold and average arrays and every
\* history entry.
C4_RejectedResizeKeepsState ==
    [][(lastCall'.op \in ResizeOps /\ lastCall'.arg <= 0) => UNCHANGED detector]_vars

\* C4 witness: a resize was rejected on a detector that holds a non-zero
\* history entry and an advanced cursor.
C4_Witness ==
    /\ lastCall.op \in ResizeOps
    /\ lastCall.arg <= 0
    /\ HistoryPosition > 0
    /\ \E s \in 1..Len(EnergyHistory) :
           \E i \in 1..Len(EnergyHistory[s]) : EnergyHistory[s][i] # FZero

-----------------------------------------------------------------------------
\* A fresh detector fed the same spectrum again and again (SpecSteady).

\* Bin magnitudes: 100000008 is a float, three of them are not.
SteadyMagnitudes == {0, 12, 20, 100000008}

\* Spectra of S * k bins: sub-band 0 holds a in its first bin and b in its
\* other bins, every other sub-band holds c in all its bins.
SteadySpectra(S) ==
    { [i \in 1..(S * k) |-> IF i = 1 THEN a ELSE IF i <= k THEN b ELSE c] :
        <<k, a, b, c>> \in (1..MaxSteadyBins) \X SteadyMagnitudes
                              \X SteadyMagnitudes \X SteadyMagnitudes }

\* The object CreateBeatDetection(S, H) returns, S > 0 and H > 0.
InitSteady ==
    \E S \in 1..MaxSteadySubbands, H \in 1..MaxSteadyHistory :
        /\ created = TRUE
        /\ HistoryPosition = 0
        /\ FFTSubbandsSize = S
        /\ EnergyHistorySize = H
        /\ FFTSubbands = SetNum(<< >>, S, FZero)
        /\ FFTAverageEnergy = SetNum(<< >>, S, FZero)
        /\ FFTVariance = SetNum(<< >>, S, FZero)
        /\ FFTBeatValues = SetNum(<< >>, S, FZero)
        /\ EnergyHistory = HistoryRowsResized(SetNum(<< >>, S, << >>), H)
        /\ lastCall = Call("CreateBeatDetection", S)
        /\ nUpdates = 0
        /\ fault = "none"
        /\ steadySpectrum \in SteadySpectra(S)
        /\ PipeConstructed
        /\ WaveIdle
        /\ NotProbed

\* ProcessMagnitude with the same spectrum as before.
ProcessSameMagnitude ==
    /\ nUpdates < MaxSteadyUpdates
    /\ UpdateFFT(steadySpectrum)
    /\ UNCHANGED <<steadySpectrum, notBeat>>

NextSteady == ProcessSameMagnitude

SpecSteady == InitSteady /\ [][NextSteady]_vars

\* IsBeat(s) is false for every sub-band.
NoBeat == \A s \in 0..(FFTSubbandsSize - 1) : ~IsBeat(s)

\* C5 as claimed: with 4 sub-bands and depth 2, feeding the same spectrum
\* repeatedly, whatever the spectrum, the detector ends in a state where
\* IsBeat(s) is false for every sub-band: it is so at the last update of the
\* run.
C5_SteadyNoBeat ==
    (FFTSubbandsSize = 4 /\ EnergyHistorySize = 2 /\ nUpdates = MaxSteadyUpdates)
        => NoBeat

\* The threshold coefficient stored for sub-band s (from 1) is at least 1.
CoefficientAtLeastOne(s) == ~FGt(FInt(1), FFTBeatValues[s])

\* The energy of sub-band s (from 1) is above the smallest float with a full
\* mantissa and below half of the first magnitude a float cannot hold.
EnergyInRange(s) ==
    /\ FGt(FFTSubbands[s], [m |-> 1, e |-> MinExp])
    /\ FGt([m |-> 1, e |-> InfExp - 1], FFTSubbands[s])

\* C5 amended: on a fresh detector of depth 2 (or 1) fed the same spectrum of
\* non-negative bins, after every update past the EnergyHistorySize-th the
\* average energy of a sub-band is its energy, IsBeat(s) is false when the
\* energy is zero or the stored threshold coefficient FFTBeatValues[s] is
\* at least 1, and IsBeat(s) is true when the coefficient is below 1 and the
\* energy is in the range above.
C5_SteadyBeatFollowsCoefficient ==
    (EnergyHistorySize <= 2 /\ nUpdates > EnergyHistorySize) =>
        \A s \in 1..FFTSubbandsSize :
            /\ FFTAverageEnergy[s] = FFTSubbands[s]
            /\ (FFTSubbands[s] = FZero \/ CoefficientAtLeastOne(s)) => ~IsBeat(s - 1)
            /\ (EnergyInRange(s) /\ ~CoefficientAtLeastOne(s)) => IsBeat(s - 1)

\* C5 witness: 4 sub-bands, depth 2, twelve bins fed more than twice.  The
\* three bins 100000008 of sub-band 0 make the energy 100000016, each
\* deviation -8, the coefficient below 1 and IsBeat(0) true; the bins 12 of
\* the other sub-bands make the energy 12, the variance 0, the coefficient
\* above 1 and no beat.
C5_Witness ==
    /\ FFTSubbandsSize = 4
    /\ EnergyHistorySize = 2
    /\ nUpdates > 2
    /\ steadySpectrum = [i \in 1..12 |-> IF i <= 3 THEN 100000008 ELSE 12]
    /\ FFTSubbands[1] = FInt(100000016)
    /\ FFTAverageEnergy[1] = FInt(100000016)
    /\ ~CoefficientAtLeastOne(1)
    /\ IsBeat(0)
    /\ \A s \in 2..4 : /\ FFTSubbands[s] = FInt(12)
                       /\ FFTVariance[s] = FZero
                       /\ CoefficientAtLeastOne(s)
                       /\ ~IsBeat(s - 1)

-----------------------------------------------------------------------------
\* The pipeline under arbitrary calls of its owner and the thread pool.

InitPipe ==
    BeatConstructed /\ steadySpectrum = << >> /\ PipeConstructed /\ WaveIdle
    /\ NotProbed

DoInitialize ==
    \E n \in InitialFrameSizes : Initialize(n) /\ UNCHANGED notPipeNorBeat

DoUpdateFrameSize ==
    \E n \in FrameLens :
        /\ Len(tasks) <= MaxFramesBeforeResize
        /\ CallUpdateFrameSize(n)
        /\ UNCHANGED notPipe

\* The frames submitted with bProcessToBeatDetection so far.
BeatFramesSubmitted == Cardinality({i \in 1..Len(tasks) : tasks[i].beat})

DoProcessAudioFrame ==
    \E n \in FrameLens, b \in BOOLEAN :
        /\ b => BeatFramesSubmitted < MaxBeatFrames
        /\ ProcessAudioFrame(n, b)
        /\ UNCHANGED notPipe

DoBeginDestroy == BeginDestroy /\ UNCHANGED notPipe

OwnerResizeWindow == UpdateFrameSizeWindow /\ UNCHANGED notPipe

OwnerResizeReal == UpdateFrameSizeReal /\ UNCHANGED notPipe

OwnerResizeImaginary == UpdateFrameSizeImaginary /\ UNCHANGED notPipe

OwnerResizeSpectrum == UpdateFrameSizeSpectrum /\ UNCHANGED notPipe

OwnerFreePlan == FreeFFTPlan /\ UNCHANGED notPipe

OwnerFreeIn == FreeFFTIn /\ UNCHANGED notPipe

OwnerFreeOut == FreeFFTOut /\ UNCHANGED notPipe

OwnerNullPlan == FreeFFTNullPlan /\ UNCHANGED notPipe

OwnerNullIn == FreeFFTNullIn /\ UNCHANGED notPipe

OwnerNullOut == FreeFFTNullOut /\ UNCHANGED notPipe

OwnerNewIn == ConfigureFFTIn /\ UNCHANGED notPipe

OwnerNewOut == ConfigureFFTOut /\ UNCHANGED notPipe

OwnerNewPlan == ConfigureFFTPlan /\ UNCHANGED notPipe

OwnerStore == ProcessAudioFrameStore /\ UNCHANGED notPipe

OwnerSubmit == ProcessAudioFrameSubmit /\ UNCHANGED notPipe

WorkerStart == \E i \in 1..Len(tasks) : TaskStart(i) /\ UNCHANGED notPipe

WorkerReadSize == \E i \in 1..Len(tasks) : TaskReadSize(i) /\ UNCHANGED notPipe

WorkerLoadFrame == \E i \in 1..Len(tasks) : TaskLoadFrame(i) /\ UNCHANGED notPipe

WorkerIndexWindow ==
    \E i \in 1..Len(tasks) : TaskIndexWindow(i) /\ UNCHANGED notPipe

WorkerLoadWindow ==
    \E i \in 1..Len(tasks) : TaskLoadWindow(i) /\ UNCHANGED notPipe

WorkerInSamplesForReal ==
    \E i \in 1..Len(tasks) : TaskInSamplesForReal(i) /\ UNCHANGED notPipe

WorkerWindowReal ==
    \E i \in 1..Len(tasks) : TaskWindowReal(i) /\ UNCHANGED notPipe

WorkerInSamplesForImaginary ==
    \E i \in 1..Len(tasks) : TaskInSamplesForImaginary(i) /\ UNCHANGED notPipe

WorkerWindowImaginary ==
    \E i \in 1..Len(tasks) : TaskWindowImaginary(i) /\ UNCHANGED notPipe

WorkerCallConfiguration ==
    \E i \in 1..Len(tasks) : TaskCallConfiguration(i) /\ UNCHANGED notPipe

WorkerCallInSamples ==
    \E i \in 1..Len(tasks) : TaskCallInSamples(i) /\ UNCHANGED notPipe

WorkerCallOutSamples ==
    \E i \in 1..Len(tasks) : TaskCallOutSamples(i) /\ UNCHANGED notPipe

WorkerTransform == \E i \in 1..Len(tasks) : TaskTransform(i) /\ UNCHANGED notPipe

WorkerOutSamplesForReal ==
    \E i \in 1..Len(tasks) : TaskOutSamplesForReal(i) /\ UNCHANGED notPipe

WorkerLoadOutReal ==
    \E i \in 1..Len(tasks) : TaskLoadOutReal(i) /\ UNCHANGED notPipe

WorkerStoreReal == \E i \in 1..Len(tasks) : TaskStoreReal(i) /\ UNCHANGED notPipe

WorkerOutSamplesForImaginary ==
    \E i \in 1..Len(tasks) : TaskOutSamplesForImaginary(i) /\ UNCHANGED notPipe

WorkerLoadOutImaginary ==
    \E i \in 1..Len(tasks) : TaskLoadOutImaginary(i) /\ UNCHANGED notPipe

WorkerStoreImaginary ==
    \E i \in 1..Len(tasks) : TaskStoreImaginary(i) /\ UNCHANGED notPipe

WorkerLoadReal == \E i \in 1..Len(tasks) : TaskLoadReal(i) /\ UNCHANGED notPipe

WorkerLoadImaginary ==
    \E i \in 1..Len(tasks) : TaskLoadImaginary(i) /\ UNCHANGED notPipe

WorkerMagnitude == \E i \in 1..Len(tasks) : TaskMagnitude(i) /\ UNCHANGED notPipe

WorkerProcessMagnitude ==
    \E i \in 1..Len(tasks) : TaskProcessMagnitude(i) /\ UNCHANGED notPipeNorBeat

WorkerClearSubband ==
    \E i \in 1..Len(tasks) : TaskClearSubband(i) /\ UNCHANGED notPipeNorBeat

WorkerScaleSubband ==
    \E i \in 1..Len(tasks) : TaskScaleSubband(i) /\ UNCHANGED notPipeNorBeat

WorkerScaleVariance ==
    \E i \in 1..Len(tasks) : TaskScaleVariance(i) /\ UNCHANGED notPipeNorBeat

WorkerBeatValue ==
    \E i \in 1..Len(tasks) : TaskBeatValue(i) /\ UNCHANGED notPipeNorBeat

WorkerClearAverage ==
    \E i \in 1..Len(tasks) : TaskClearAverage(i) /\ UNCHANGED notPipeNorBeat

WorkerSumHistory ==
    \E i \in 1..Len(tasks) : TaskSumHistory(i) /\ UNCHANGED notPipeNorBeat

WorkerDivideAverage ==
    \E i \in 1..Len(tasks) : TaskDivideAverage(i) /\ UNCHANGED notPipeNorBeat

WorkerWriteHistory ==
    \E i \in 1..Len(tasks) : TaskWriteHistory(i) /\ UNCHANGED notPipeNorBeat

WorkerAdvanceHistory ==
    \E i \in 1..Len(tasks) : TaskAdvanceHistory(i) /\ UNCHANGED notPipeNorBeat

NextPipe ==
    \/ DoInitialize
    \/ DoUpdateFrameSize
    \/ DoProcessAudioFrame
    \/ DoBeginDestroy
    \/ OwnerResizeWindow
    \/ OwnerResizeReal
    \/ OwnerResizeImaginary
    \/ OwnerResizeSpectrum
    \/ OwnerFreePlan
    \/ OwnerFreeIn
    \/ OwnerFreeOut
    \/ OwnerNullPlan
    \/ OwnerNullIn
    \/ OwnerNullOut
    \/ OwnerNewIn
    \/ OwnerNewOut
    \/ OwnerNewPlan
    \/ OwnerStore
    \/ OwnerSubmit
    \/ WorkerStart
    \/ WorkerReadSize
    \/ WorkerLoadFrame
    \/ WorkerIndexWindow
    \/ WorkerLoadWindow
    \/ WorkerInSamplesForReal
    \/ WorkerWindowReal
    \/ WorkerInSamplesForImaginary
    \/ WorkerWindowImaginary
    \/ WorkerCallConfiguration
    \/ WorkerCallInSamples
    \/ WorkerCallOutSamples
    \/ WorkerTransform
    \/ WorkerOutSamplesForReal
    \/ WorkerLoadOutReal
    \/ WorkerStoreReal
    \/ WorkerOutSamplesForImaginary
    \/ WorkerLoadOutImaginary
    \/ WorkerStoreImaginary
    \/ WorkerLoadReal
    \/ WorkerLoadImaginary
    \/ WorkerMagnitude
    \/ WorkerProcessMagnitude
    \/ WorkerClearSubband
    \/ WorkerScaleSubband
    \/ WorkerScaleVariance
    \/ WorkerBeatValue
    \/ WorkerClearAverage
    \/ WorkerSumHistory
    \/ WorkerDivideAverage
    \/ WorkerWriteHistory
    \/ WorkerAdvanceHistory

SpecPipe == InitPipe /\ [][NextPipe]_vars

-----------------------------------------------------------------------------
\* Claims on the pipeline (SpecPipe).

\* C6: at most one background transform-and-update sequence is in flight at
\* any time on one pipeline instance.
C6_OneTaskInFlight ==
    Cardinality({i \in 1..Len(tasks) : Running(i)}) <= 1

\* The frames submitted with bProcessToBeatDetection, in submission order.
RECURSIVE BeatFrames(_)
BeatFrames(n) ==
    IF n = 0 THEN << >>
    ELSE IF tasks[n].beat THEN Append(BeatFrames(n - 1), tasks[n].frame)
    ELSE BeatFrames(n - 1)

\* The magnitude spectrum of the k-th submitted frame alone.
SpectrumOfFrame(k) == Filled(tasks[k].size \div 2, tasks[k].frame)

\* The task has left the windowing loop of PerformFFT behind.
PastWindowing(i) ==
    tasks[i].pc \notin {"queued", "size", "loadFrame", "indexWindow",
                        "loadWindow", "inForReal", "windowReal",
                        "inForImaginary", "windowImaginary"}

\* C7: the k-th submitted task transforms exactly frame fk, and the beat
\* detector receives the spectra of the frames submitted for it once each
\* and in submission order.
C7_TasksProcessOwnFrames ==
    /\ \A i \in 1..Len(tasks) :
           PastWindowing(i) => tasks[i].read = {tasks[i].frame}
    /\ Len(beatLog) <= Len(BeatFrames(Len(tasks)))
    /\ \A k \in 1..Len(beatLog) :
           beatLog[k] = SpectrumOfFrame(BeatFrames(Len(tasks))[k])

\* C8: while a background task is inside PerformFFT no step frees a block of
\* the plan or resizes one of the arrays it works on.
C8_PlanStableWhileTransforming ==
    [][(\E i \in 1..Len(tasks) : Transforming(i)) =>
           /\ \A b \in Blocks : heap[b] = "live" => heap'[b] = "live"
           /\ Len(CurrentAudioFrame') = Len(CurrentAudioFrame)
           /\ WindowFunction' = WindowFunction
           /\ Len(FFTReal') = Len(FFTReal)
           /\ Len(FFTImaginary') = Len(FFTImaginary)
           /\ Len(MagnitudeSpectrum') = Len(MagnitudeSpectrum)]_vars

LiveBlocks == {b \in Blocks : heap[b] = "live"}

FreedBlocks == {b \in Blocks : heap[b] = "freed"}

\* The k-th allocation is an input buffer, an output buffer or a plan in
\* turn (ConfigureFFT lines 338-340).
SameKind(b, c) == b % 3 = c % 3

\* C9: every plan and sample-buffer pair allocated is released exactly once:
\* no block is freed twice, at most one plan and one buffer of each kind is
\* live, between the owner's calls the live blocks are exactly those the
\* three pointers name (nothing leaked), all three or none, and none is live
\* once BeginDestroy has returned.
C9_PlansReleasedOnce ==
    /\ ~doubleFree
    /\ \A b \in LiveBlocks, c \in LiveBlocks : SameKind(b, c) => b = c
    /\ owner = Idle => /\ LiveBlocks = PlanBlocks
                       /\ Cardinality(LiveBlocks) \in {0, 3}
    /\ (destroyed /\ owner = Idle) => LiveBlocks = {}

\* C9 witness: the pipeline was reconfigured by a frame of another length, a
\* task ran, and BeginDestroy released the last plan.
C9_Witness ==
    /\ destroyed
    /\ owner = Idle
    /\ Cardinality(FreedBlocks) >= 6
    /\ LiveBlocks = {}
    /\ \E i \in 1..Len(tasks) : tasks[i].pc = "done"

-----------------------------------------------------------------------------
\* Claims on the frame range reader (SpecWave).

ValidRange(start, end) == 0 <= start /\ start < end /\ end <= PCMNumOfFrames

\* C10: GetAudioFrameFromSoundWaveByFramesCustom returns false and leaves the
\* caller's AudioFrame unchanged whenever start < 0, end <= start or end
\* exceeds the frame count; it returns true only when
\* 0 <= start < end <= totalFrames.
C10_RangeValidated ==
    /\ [](waveCall.result # "none" =>
            (waveCall.result = "true" => ValidRange(waveCall.start, waveCall.end)))
    /\ [][waveCall'.result = "false" => AudioFrame' = AudioFrame]_vars

\* C10 witness: a call with the end past the last frame was rejected and the
\* caller's array still holds the slice of an earlier accepted call.
C10_Witness ==
    /\ waveCall.result = "false"
    /\ waveCall.start >= 0
    /\ waveCall.start < waveCall.end
    /\ waveCall.end > PCMNumOfFrames
    /\ Len(AudioFrame) > 1

\* C11: when GetAudioFrameFromSoundWaveByFramesCustom accepts a range
\* [start, end), the returned slice has length (end - start) * NumChannels and
\* consists of the interleaved samples of frames start..end-1, for every
\* channel count.
C11_SliceHoldsAllChannels ==
    waveCall.result = "true" =>
        /\ Len(AudioFrame) = (waveCall.end - waveCall.start) * NumChannels
        /\ \A i \in 1..Len(AudioFrame) :
               AudioFrame[i] = PCMSample(waveCall.start * NumChannels + i)

-----------------------------------------------------------------------------
\* A fresh detector fed spectra and queried by its owner (SpecProbe), and a
\* fresh detector fed spectra, with the spectra recorded (SpecFeed).

\* The spectra fed before the queries: a silent sub-band below a loud one,
\* unequal bins, lengths that are and are not multiples of the sub-band count.
ProbeSpectra == { <<0, 4, 8>>, <<2, 6, 1, 1>> }

\* The spectra fed in SpecFeed; on the empty one S / len is infinite.
FeedSpectra == { << >>, <<4, 0, 8>>, <<2, 6, 1, 1>>, <<3, 3, 3, 3, 3, 3>> }

\* The object CreateBeatDetection(S, H) returns, S > 0 and H > 0.
Fresh(S, H) ==
    /\ created = TRUE
    /\ HistoryPosition = 0
    /\ FFTSubbandsSize = S
    /\ EnergyHistorySize = H
    /\ FFTSubbands = SetNum(<< >>, S, FZero)
    /\ FFTAverageEnergy = SetNum(<< >>, S, FZero)
    /\ FFTVariance = SetNum(<< >>, S, FZero)
    /\ FFTBeatValues = SetNum(<< >>, S, FZero)
    /\ EnergyHistory = HistoryRowsResized(SetNum(<< >>, S, << >>), H)
    /\ lastCall = Call("CreateBeatDetection", S)
    /\ nUpdates = 0
    /\ fault = "none"
    /\ steadySpectrum = << >>
    /\ PipeConstructed
    /\ WaveIdle
    /\ NotProbed

\* ProcessMagnitude with the spectrum m; the spectrum is recorded.
Feed(m) ==
    /\ UpdateFFT(m)
    /\ fed' = Append(fed, m)
    /\ UNCHANGED <<steadySpectrum, pipeVars, waveVars, featureVars>>

InitProbe ==
    \E S \in 1..MaxProbeSubbands, H \in 1..MaxProbeHistory : Fresh(S, H)

FeedBeforeQuery ==
    \E m \in ProbeSpectra : Len(fed) < MaxProbeUpdates /\ Feed(m)

QueryIsBeat ==
    \E i \in -1..MaxProbeSubbands : CallIsBeat(i) /\ UNCHANGED notBeat

QueryIsBeatRange ==
    \E low \in -1..MaxProbeSubbands, high \in -1..MaxProbeSubbands,
       threshold \in 0..1 :
        CallIsBeatRange(low, high, threshold) /\ UNCHANGED notBeat

QueryGetBand ==
    \E i \in -1..MaxProbeSubbands : CallGetBand(i) /\ UNCHANGED notBeat

NextProbe ==
    \/ FeedBeforeQuery
    \/ QueryIsBeat
    \/ QueryIsBeatRange
    \/ QueryGetBand

SpecProbe == InitProbe /\ [][NextProbe]_vars

InitFeed ==
    \E S \in 1..MaxFeedSubbands, H \in 1..MaxFeedHistory : Fresh(S, H)

FeedSpectrum ==
    \E m \in FeedSpectra : Len(fed) < MaxFeedUpdates /\ Feed(m)

NextFeed == FeedSpectrum

SpecFeed == InitFeed /\ [][NextFeed]_vars

-----------------------------------------------------------------------------
\* Claims on the queries of the detector (SpecProbe).

\* The comparison of line 138 on the current state, for a valid sub-band.
BeatNow(s) ==
    ExceedsThreshold(FFTSubbands[s + 1], FFTAverageEnergy[s + 1],
                     FFTBeatValues[s + 1])

\* C12: IsBeat(i) returns false, without reading any array element, for
\* every index that is not a valid sub-band index (i >= S and also i < 0);
\* for i in [0, S) it returns exactly
\* FFTSubbands[i] > FFTAverageEnergy[i] * FFTBeatValues[i].
C12_IsBeatSentinel ==
    lastCall.op = "IsBeat" =>
        /\ fault = "none"
        /\ lastCall.result =
               IF lastCall.arg >= 0 /\ lastCall.arg < FFTSubbandsSize
               THEN BeatNow(lastCall.arg)
               ELSE FALSE

\* C13: IsBeatRange(low, high, threshold) returns false whenever low or high
\* lies outside [0, S) or high <= low; otherwise it returns true exactly when
\* the number of sub-bands s with low <= s <= high for which IsBeat(s) holds
\* is strictly greater than threshold; it never changes detector state.
C13_IsBeatRangeCounts ==
    /\ [](lastCall.op = "IsBeatRange" =>
            LET low == lastCall.arg[1]
                high == lastCall.arg[2]
                threshold == lastCall.arg[3]
                valid == /\ low \in 0..(FFTSubbandsSize - 1)
                         /\ high \in 0..(FFTSubbandsSize - 1)
                         /\ high > low
            IN  lastCall.result =
                    (valid /\ Cardinality({s \in low..high : BeatNow(s)}) > threshold))
    /\ [][lastCall'.op = "IsBeatRange" => UNCHANGED <<detector, fault>>]_vars

\* C13 witness: a range whose only beating sub-band is its upper end was
\* accepted and answered true against threshold 0.
C13_Witness ==
    /\ lastCall.op = "IsBeatRange"
    /\ lastCall.arg = <<0, 1, 0>>
    /\ FFTSubbandsSize = 2
    /\ ~BeatNow(0)
    /\ BeatNow(1)
    /\ lastCall.result = TRUE

\* C14: GetBand(i) returns -1 for every i outside 0 < i < S, including
\* i = 0, negative i and i >= S, and returns the current FFTSubbands[i] for
\* 0 < i < S.
C14_GetBandExcludesZero ==
    lastCall.op = "GetBand" =>
        lastCall.result =
            IF 0 < lastCall.arg /\ lastCall.arg < FFTSubbandsSize
            THEN FFTSubbands[lastCall.arg + 1]
            ELSE FInt(-1)

\* C14 witness: GetBand(0) answered -1 on a detector whose sub-band 0 holds a
\* positive energy.
C14_Witness ==
    /\ lastCall.op = "GetBand"
    /\ lastCall.arg = 0
    /\ FFTSubbandsSize > 0
    /\ FGt(FFTSubbands[1], FZero)
    /\ lastCall.result = FInt(-1)

-----------------------------------------------------------------------------
\* UCoreTimeDomainFeatures: pure functions of an audio frame.

\* The initial value of Peak in GetPeakEnergy.
PeakFloor == -10000

\* Sum after the loop of lines 11-14, for each choice of the squares powf
\* may return: each sum is rounded.
SumOfSquares(samples) ==
    FSums(FZero, [i \in DOMAIN samples |-> FPow2(samples[i])], 1, Len(samples))

\* UCoreTimeDomainFeatures::GetRootMeanSquare: the values it may return.
GetRootMeanSquare(Frame) ==
    {FSqrt(FDiv(Sum, FInt(Len(Frame)))) : Sum \in SumOfSquares(Frame)}

\* FMath::Abs(Frame)
AbsSample(x) == [m |-> Abs(x.m), e |-> x.e]

\* Lines 31-35: the peak takes on the value that is larger than it.
Larger(a, Peak) == IF FGt(a, Peak) THEN a ELSE Peak

RECURSIVE PeakAfter(_, _)
\* Peak after the first i samples of the loop of lines 25-36.
PeakAfter(samples, i) ==
    IF i = 0 THEN FInt(PeakFloor)
    ELSE Larger(AbsSample(samples[i]), PeakAfter(samples, i - 1))

\* UCoreTimeDomainFeatures::GetPeakEnergy
GetPeakEnergy(Frame) == PeakAfter(Frame, Len(Frame))

\* Mutant: a sample equal to 0 counts as positive.
IsNotNegative(x) == ~FGt(FZero, x)

\* Lines 53-54: AudioFrame[FrameIndex] > 0
IsPositive(x) == FGt(x, FZero)

RECURSIVE CrossingsFrom(_, _, _)
\* ZeroCrossingRateValue after the loop of lines 47-62 run from FrameIndex
\* on, the value being rate before: each crossing adds 1.0.
CrossingsFrom(samples, FrameIndex, rate) ==
    IF FrameIndex < Len(samples)
    THEN CrossingsFrom(samples, FrameIndex + 1,
             IF IsPositive(samples[FrameIndex + 1]) # IsPositive(samples[FrameIndex])
             THEN FAdd(rate, FInt(1)) ELSE rate)
    ELSE rate

\* UCoreTimeDomainFeatures::GetZeroCrossingRate
GetZeroCrossingRate(Frame) == CrossingsFrom(Frame, 1, FZero)

\* A feature call: the functions return a float and have no other outcome.
FeatureCall(op, result) == [op |-> op, outcome |-> "returned", result |-> result]

\* The floats 1e20f, 1e-30f and 0.1f.
Sample1e20 == [m |-> 2842171, e |-> 45]

Sample1eMinus30 == [m |-> 332307, e |-> -118]

SampleTenth == [m |-> 13421773, e |-> -27]

\* Sample values of the frames.
Samples == {FInt(-3), FInt(-1), FZero, FInt(2), Sample1e20, Sample1eMinus30,
            SampleTenth}

Frames == UNION { [1..n -> Samples] : n \in 0..MaxFrameLen }

\* A frame in the caller's array, nothing computed yet.
InitFeature ==
    /\ BeatConstructed
    /\ steadySpectrum = << >>
    /\ PipeConstructed
    /\ PCMNumOfFrames = 0
    /\ NumChannels = 1
    /\ waveCall = WaveCall(0, 0, "none")
    /\ AudioFrame \in Frames
    /\ NotProbed

ComputeRootMeanSquare ==
    /\ \E result \in GetRootMeanSquare(AudioFrame) :
           featureCall' = FeatureCall("GetRootMeanSquare", result)
    /\ UNCHANGED <<beatVars, pipeVars, waveVars, probeVars>>

ComputePeakEnergy ==
    /\ featureCall' = FeatureCall("GetPeakEnergy", GetPeakEnergy(AudioFrame))
    /\ UNCHANGED <<beatVars, pipeVars, waveVars, probeVars>>

ComputeZeroCrossingRate ==
    /\ featureCall' = FeatureCall("GetZeroCrossingRate", GetZeroCrossingRate(AudioFrame))
    /\ UNCHANGED <<beatVars, pipeVars, waveVars, probeVars>>

NextFeature ==
    \/ ComputeRootMeanSquare
    \/ ComputePeakEnergy
    \/ ComputeZeroCrossingRate

SpecFeature == InitFeature /\ [][NextFeature]_vars

-----------------------------------------------------------------------------
\* Claims on the time-domain features (SpecFeature).

\* The indices i in [1, len), 0-based, where the sign test x > 0 differs
\* between sample i and sample i - 1: a float is above 0 when its mantissa is.
SignChanges ==
    {i \in 2..Len(AudioFrame) : (AudioFrame[i].m > 0) # (AudioFrame[i - 1].m > 0)}

\* C15: ZeroCrossingRate equals the number of indices i in [1, len) where
\* (x_i > 0) differs from (x_{i-1} > 0), a sample equal to 0 counting as
\* non-positive; it is the raw count, 0 for frames of length 0 or 1, and at
\* most len - 1.
C15_ZeroCrossingCount ==
    featureCall.op = "GetZeroCrossingRate" =>
        /\ featureCall.result = FInt(Cardinality(SignChanges))
        /\ Len(AudioFrame) <= 1 => featureCall.result = FZero
        /\ Len(AudioFrame) >= 1 =>
               ~FGt(featureCall.result, FInt(Len(AudioFrame) - 1))

\* C15 witness: a frame that passes from a negative sample to 0 (no
\* crossing) and from 0 to a positive sample (a crossing) was counted as 1.
C15_Witness ==
    /\ featureCall.op = "GetZeroCrossingRate"
    /\ AudioFrame = <<FInt(-1), FZero, FInt(2)>>
    /\ featureCall.result = FInt(1)

\* All samples of the frame equal c, and there is at least one.
ConstantFrame(c) ==
    Len(AudioFrame) >= 1 /\ \A i \in 1..Len(AudioFrame) : AudioFrame[i] = c

\* C16: for every frame of length N >= 1 whose samples all equal the same
\* value c (positive, zero or negative), RootMeanSquare = |c|,
\* PeakEnergy = |c| and ZeroCrossingRate = 0.
C16_ConstantFrameFeatures ==
    \A c \in Samples :
        ConstantFrame(c) =>
            /\ featureCall.op = "GetRootMeanSquare" => featureCall.result = AbsSample(c)
            /\ featureCall.op = "GetPeakEnergy" => featureCall.result = AbsSample(c)
            /\ featureCall.op = "GetZeroCrossingRate" => featureCall.result = FZero

\* C17: RootMeanSquare and PeakEnergy called on an empty frame report an
\* EmptyInput error outcome instead of returning a numeric result.
C17_EmptyFrameIsAnError ==
    (featureCall.op \in {"GetRootMeanSquare", "GetPeakEnergy"} /\ AudioFrame = << >>)
        => featureCall.outcome = "EmptyInput"

-----------------------------------------------------------------------------
\* Claims on the update of a fresh detector (SpecFeed).

\* The spectrum of the last UpdateFFT call.
LastFed == fed[Len(fed)]

\* floor(len / S) for the spectrum m.
FloorBins(m) == Len(m) \div FFTSubbandsSize

\* The bins s*k .. (s+1)*k-1 of the spectrum m, s counted from 0.
BinsOf(m, s) == [j \in 1..FloorBins(m) |-> FInt(m[s * FloorBins(m) + j])]

\* The average of those bins, in float: their sum divided by their number.
MeanOfBins(m, s) ==
    FDiv(FSum(FZero, BinsOf(m, s), 1, FloorBins(m)), FInt(FloorBins(m)))

\* The variance of those bins around the value e, in float: the sum of the
\* squared deviations divided by their number, for each choice of the squares
\* powf may return.
VarianceOfBins(m, s, e) ==
    {FDiv(sum, FInt(FloorBins(m))) :
        sum \in FSums(FZero, SquaredDeviations(BinsOf(m, s), e), 1, FloorBins(m))}

\* C18: after every UpdateFFT call, FFTVariance[s] equals the variance of the
\* current spectrum's bins of sub-band s around FFTSubbands[s] and depends
\* only on the spectrum passed to that call, and FFTBeatValues[s] is the
\* threshold line at that variance, whatever spectra were fed earlier.
C18_VarianceOfCurrentSpectrum ==
    (fed # << >> /\ Len(LastFed) >= FFTSubbandsSize) =>
        \A s \in 1..FFTSubbandsSize :
            /\ FFTVariance[s] \in VarianceOfBins(LastFed, s - 1, FFTSubbands[s])
            /\ FFTBeatValues[s] = BeatFloat(FFTVariance[s])

\* C19: for every spectrum length len >= S, multiple of S or not, UpdateFFT
\* uses k = floor(len / S) bins per sub-band, sub-band s covers exactly bins
\* s*k .. (s+1)*k-1, and FFTSubbands[s] is the sum of those k bins divided by
\* k.
C19_SubbandIsMeanOfItsBins ==
    (fed # << >> /\ Len(LastFed) >= FFTSubbandsSize) =>
        \A s \in 1..FFTSubbandsSize : FFTSubbands[s] = MeanOfBins(LastFed, s - 1)

\* The update among the H updates that end with update number last whose
\* energy is written at index p (from 0) of a history row.
UpdateAt(last, p) ==
    CHOOSE u \in (last - EnergyHistorySize + 1)..last :
        (u - 1) % EnergyHistorySize = p

\* The energies of sub-band s (from 0) in the H updates that end with update
\* number last, each at the index of the history row it is written at.
EnergiesUpTo(last, s) ==
    [j \in 1..EnergyHistorySize |-> SubbandEnergy(fed[UpdateAt(last, j - 1)], s)]

\* The mean of the H values of row, in float.
MeanOf(row, H) == FDiv(FSum(FZero, row, 1, H), FInt(H))

\* C20: each UpdateFFT call computes every sub-band's average from the
\* history before writing the current energies, writes FFTSubbands[s] for all
\* s at the one index HistoryPosition and advances the cursor once modulo H:
\* after n >= H updates with no resize, history[s] holds exactly the
\* energies of the last H updates, and the average an update used is the mean
\* of the H energies before it, its own excluded.
C20_HistoryHoldsLastEnergies ==
    LET n == Len(fed)
        H == EnergyHistorySize
    IN  /\ HistoryPosition = n % H
        /\ n >= H =>
               \A s \in 1..FFTSubbandsSize : \A j \in 1..H :
                   EnergyHistory[s][((n - j) % H) + 1] =
                       SubbandEnergy(fed[n - j + 1], s - 1)
        /\ n >= H + 1 =>
               \A s \in 1..FFTSubbandsSize :
                   FFTAverageEnergy[s] = MeanOf(EnergiesUpTo(n - 1, s - 1), H)

\* C20 witness: depth 2, three different spectra fed: sub-band 0 had the
\* energies 4 * (2/3), 4 and 3; its history holds 3 (written over the first)
\* and 4, the cursor is 1 and the average used by the third update is the
\* float mean of the first two.
C20_Witness ==
    /\ FFTSubbandsSize = 2
    /\ EnergyHistorySize = 2
    /\ fed = << <<4, 0, 8>>, <<2, 6, 1, 1>>, <<3, 3, 3, 3, 3, 3>> >>
    /\ EnergyHistory[1] = <<FInt(3), FInt(4)>>
    /\ HistoryPosition = 1
    /\ FFTAverageEnergy[1] =
           FDiv(FAdd(FMul(FInt(4), FDiv(FInt(2), FInt(3))), FInt(4)), FInt(2))

-----------------------------------------------------------------------------
\* The derived detectors on a detector of any sub-band count (SpecDerived).

\* The spectra fed: every bin loud, and the upper bins silent.
DerivedSpectra == { <<5, 5, 5, 5, 5, 5, 5, 5>>, <<9, 9, 9, 0, 0, 0, 0, 0>> }

\* The object CreateBeatDetection(S, H) returns, H > 0; S = 0 is the count
\* the constructor leaves when the requested count is rejected.
InitDerived ==
    \E S \in 0..MaxDerivedSubbands, H \in 1..MaxDerivedHistory : Fresh(S, H)

FeedBeforeDerived ==
    \E m \in DerivedSpectra : Len(fed) < MaxDerivedUpdates /\ Feed(m)

QueryIsSnare == CallIsSnare /\ UNCHANGED notBeat

QueryIsHiHat == CallIsHiHat /\ UNCHANGED notBeat

NextDerived ==
    \/ FeedBeforeDerived
    \/ QueryIsSnare
    \/ QueryIsHiHat

SpecDerived == InitDerived /\ [][NextDerived]_vars

\* C21: the derived detectors are dead for small sub-band counts: for every
\* S < 6, IsSnare() returns false in every reachable state, and for every
\* S <= 2, IsHiHat() returns false in every reachable state, whatever spectra
\* were fed.
C21_DerivedDetectorsDead ==
    /\ (lastCall.op = "IsSnare" /\ FFTSubbandsSize < 6) => lastCall.result = FALSE
    /\ (lastCall.op = "IsHiHat" /\ FFTSubbandsSize <= 2) => lastCall.result = FALSE

\* C21 witness: IsSnare answered false on a detector of 5 sub-bands all of
\* which beat.
C21_Witness ==
    /\ lastCall.op = "IsSnare"
    /\ FFTSubbandsSize = 5
    /\ \A s \in 0..4 : BeatNow(s)
    /\ lastCall.result = FALSE

====
